---------------------------- MODULE Spec2Model ----------------------------
(***************************************************************************)
(* Knowledge-distillation orchestration engine (FradSer/qa-generator).     *)
(*                                                                         *)
(* Four parts of the program are modelled:                                 *)
(*   - the pipeline of src/distillation/core.py: TeacherModel,             *)
(*     StudentModel, QualityValidator and the orchestrator's               *)
(*     generate_dataset, one action per stretch of code between two        *)
(*     awaits;                                                             *)
(*   - the RateLimiter of src/distillation/providers.py, shared by the     *)
(*     concurrent callers of one provider;                                 *)
(*   - the BudgetTracker of src/backend/distillation/cost_optimizer.py;    *)
(*   - the IntelligentCostOptimizer of the same file: model selection,     *)
(*     teacher/student allocation and performance tracking.                *)
(*                                                                         *)
(* Units: confidences and quality scores are hundredths (0.9 is 90); an    *)
(* average is kept exact as the pair [num, den]; costs are thousandths of  *)
(* a currency unit; time is whole seconds.                                 *)
(***************************************************************************)
EXTENDS Integers, Sequences, FiniteSets, TLC

VARIABLES
    \* ---- generate_dataset / generate_seed_data (core.py) ----
    entry,            \* which coroutine was called: "none", "generate_dataset", "generate_seed_data"
    pc,               \* position of that coroutine
    quantity,         \* request.quantity
    seed_i,           \* loop variable i of generate_seed_data
    examples,         \* local list `examples` of generate_seed_data / teacher_examples
    examples_cache,   \* TeacherModel.examples_cache
    learned_patterns, \* StudentModel.learned_patterns (its key set)
    learning_result,  \* value returned by learn_from_teacher
    batch_start,      \* loop variable batch_start of generate_bulk_data
    inflight,         \* calls of the current gather() that have not settled
    batch_responses,  \* batch_responses, by position
    results,          \* local list `results` of generate_bulk_data / student_data
    sample_indices,   \* sample_indices of validate_batch
    validations,      \* validations collected by gather(), by position
    response,         \* <<>> until generate_dataset returns, then <<GenerationResponse>>
    seed_returned,    \* <<>> until generate_seed_data returns, then <<its list>>
    \* ---- the provider side (environment) and history ----
    anomalies,        \* provider calls so far that failed or ended abnormally
    teacher_calls,    \* history: iteration index of every seed call issued
    teacher_outcomes, \* history: outcome of every seed call, in call order
    student_calls,    \* history: iteration index of every student call issued
    student_outcomes, \* history: outcome of every settled student call, by index
    validation_calls, \* history: item index of every validation call issued
    max_inflight,     \* history: most student calls ever in flight at once
    stage_log,        \* history: the stages entered, in order
    \* ---- validate_batch called on its own (core.py) ----
    sample_ratio,        \* parameter sample_ratio of validate_batch, in percent
    validation_returned, \* <<>> until validate_batch returns to such a caller, then <<its dict>>
    validation_outcomes, \* history: what each validation call did, by position
    \* ---- RateLimiter (providers.py) ----
    requests_per_minute, \* RateLimiter.requests_per_minute
    request_times,       \* RateLimiter.request_times
    clock,               \* time.time()
    rl_pc,               \* per caller: "idle", "sleeping"
    rl_wake,             \* per caller: end of its asyncio.sleep
    rl_returned,         \* history, per caller: calls of wait_if_needed that returned
    rl_suspended,        \* history, per caller: times the caller was suspended
    rl_started,          \* history: calls of wait_if_needed begun so far
    rl_time_between,     \* history: time has passed while no caller was suspended
    rl_overlap           \* history: a call began while another caller was suspended

vb_vars == <<sample_ratio, validation_returned, validation_outcomes>>

pipe_vars == <<entry, pc, quantity, seed_i, examples, examples_cache, learned_patterns,
               learning_result, batch_start, inflight, batch_responses, results,
               sample_indices, validations, response, seed_returned, anomalies,
               teacher_calls, teacher_outcomes, student_calls, student_outcomes,
               validation_calls, max_inflight, stage_log, vb_vars>>

rl_vars == <<requests_per_minute, request_times, clock, rl_pc, rl_wake, rl_returned,
             rl_suspended, rl_started, rl_time_between, rl_overlap>>

VARIABLES
    \* ---- BudgetTracker (cost_optimizer.py) ----
    total_spending,   \* BudgetTracker.total_spending
    daily_spending,   \* BudgetTracker.daily_spending, a defaultdict(float) keyed by day
    hourly_spending,  \* BudgetTracker.hourly_spending, a defaultdict(float) keyed by <<day, hour>>
    bt_now,           \* datetime.now(), as [day, hour]
    bt_ops,           \* history: calls made on the tracker so far
    bt_last,          \* history: the last call, its inputs, the state before it, its result
    bt_prev           \* history: the call before the last one

bt_vars == <<total_spending, daily_spending, hourly_spending, bt_now, bt_ops, bt_last,
             bt_prev>>

VARIABLES
    \* ---- IntelligentCostOptimizer (cost_optimizer.py) ----
    model_profiles,     \* model_profiles: the registered profiles, in insertion order
    cost_history,       \* cost_history
    quality_history,    \* quality_history
    optimization_rules, \* optimization_rules: per key, its 'performance_history'
    co_clock,           \* datetime.now() of the optimizer, a logical time
    co_last,            \* history: the last optimize_* call, its inputs and its outcome
    co_tracked          \* history: calls of track_actual_performance explored so far

co_vars == <<model_profiles, cost_history, quality_history, optimization_rules, co_clock,
             co_last, co_tracked>>

VARIABLES
    \* ---- PatternExtractor / AdaptiveLearningManager (transfer.py) ----
    pt_heap,      \* the KnowledgePattern objects created so far, by reference
    pt_patterns,  \* PatternExtractor.patterns: pattern_id and reference, in insertion order
    pt_last,      \* history: the last call, its arguments and what it returned
    pt_ops        \* history: number of calls so far

tr_vars == <<pt_heap, pt_patterns, pt_last, pt_ops>>

VARIABLES
    \* ---- create_distillation_system / APIIntegrationLayer (integration.py) ----
    ds_last,         \* history: the call of create_distillation_system and how it ended
    api_last,        \* the call of handle_generation_request and how it ended
    request_history, \* APIIntegrationLayer.request_history
    pattern_cache,   \* DistillationManager.pattern_cache
    \* ---- several generate_dataset runs on one orchestrator (core.py) ----
    run_now,         \* the run whose local variables the pipeline variables hold
    run_parked,      \* <<>>, or <<the local variables of the other, suspended or finished, run>>
    cache_owner,     \* history: the run that created each entry of examples_cache
    run_starts       \* history: the cache and the completed runs when a later run started

run_vars == <<run_now, run_parked, cache_owner, run_starts>>

in_vars == <<ds_last, api_last, request_history, pattern_cache, run_vars>>

vars == <<pipe_vars, rl_vars, bt_vars, co_vars, tr_vars, in_vars>>

-----------------------------------------------------------------------------
(* Bounds of the model *)

\* generate_dataset is explored for every quantity 0..MaxQuantity.
MaxQuantity == 21

\* At most this many provider calls of one run fail or end abnormally.
MaxAnomalies == 1

\* RateLimiter: limits 1..MaxLimit, callers 1..NumCallers sharing one limiter,
\* MaxCalls calls of wait_if_needed in all.
MaxLimit == 2
NumCallers == 2
MaxCalls == 4

\* The clock advances TickSeconds at a time, up to MaxClock.
TickSeconds == 20
MaxClock == 120

\* The budget tracker receives at most MaxBudgetOps calls, over the days
\* 1..MaxDay and the hours 0..MaxHour of each day.
MaxBudgetOps == 3
MaxDay == 2
MaxHour == 1

\* At most MaxTracked calls of track_actual_performance are explored after the
\* initial state of the optimizer.
MaxTracked == 2

\* validate_batch is called on its own with lists of 1..MaxItems items.
MaxItems == 7
MaxExamples == 20
MaxTransferOps == 2
\* adapt_patterns may still be called until MaxAdaptOps calls were made in all.
MaxAdaptOps == 3

-----------------------------------------------------------------------------
(* Small helpers *)

Min(a, b) == IF a < b THEN a ELSE b
Max(a, b) == IF a > b THEN a ELSE b

RECURSIVE SumSeq(_)
SumSeq(s) == IF s = <<>> THEN 0 ELSE Head(s) + SumSeq(Tail(s))

\* The list range(a, b) as a sequence.
Range(a, b) == [k \in 1..Max(b - a, 0) |-> a + k - 1]

\* The list range(0, n, step)[:size], step >= 1.
SteppedRangeUntruncated(n, step, size) ==
    LET full == IF n <= 0 THEN 0 ELSE ((n - 1) \div step) + 1
    IN  [k \in 1..full |-> (k - 1) * step]

SteppedRange(n, step, size) ==
    LET full == IF n <= 0 THEN 0 ELSE ((n - 1) \div step) + 1
    IN  [k \in 1..Min(full, size) |-> (k - 1) * step]

-----------------------------------------------------------------------------
(* The provider side: what one call of LLMProvider.generate can do *)

\* The provider's completion-status signal of a call, or "error" for a call
\* that raises (non-200 status, timeout, transport failure).
GenerateOutcomes == {"stop", "length", "error"}

\* Every outcome but a natural completion counts against MaxAnomalies.
IsAnomaly(outcome) == outcome # "stop"

\* Tokens a provider reports for a completion that ended naturally.
NominalTokens == 100

\* OpenAIProvider._calculate_confidence
CalculateConfidence(finish_reason) ==
    IF finish_reason = "stop" THEN 90
    ELSE IF finish_reason = "length" THEN 70
    ELSE 50

\* The dictionary OpenAIProvider.generate returns for call `call`.
ProviderReply(call, finish_reason, max_tokens) ==
    [content     |-> call,
     tokens_used |-> IF finish_reason = "length" THEN max_tokens ELSE NominalTokens,
     confidence  |-> CalculateConfidence(finish_reason)]

\* Replies to the validation prompt, as the characters of response['content'].
ScoreTexts ==
    { <<"0", ".", "8", "5">>,
      <<" ", "1", ".", "5", " ">>,
      <<"1", ".", "2", ".", "3">>,
      <<"g", "o", "o", "d">> }

\* A validation call raises, or returns one of the texts.
ValidationOutcomes ==
    {[raised |-> TRUE, content |-> <<>>]}
        \cup {[raised |-> FALSE, content |-> t] : t \in ScoreTexts}

-----------------------------------------------------------------------------
(* TeacherModel *)

\* seed_quantity of generate_seed_data
SeedQuantityNoCap(q) == q \div 10
SeedQuantity(q) == Min(q \div 10, 50)

teacher_max_tokens == 1000

\* The TeacherExample built from a provider response.
TeacherExample(i, reply) ==
    [output      |-> reply.content,
     confidence  |-> reply.confidence,
     tokens_used |-> reply.tokens_used,
     iteration   |-> i]

\* generate_dataset is called: it runs up to its first await, inside
\* generate_seed_data.
EnterPipelineWith(name, q, patterns) ==
    /\ entry = "none"
    /\ entry' = name
    /\ quantity' = q
    /\ pc' = "seed_loop"
    /\ seed_i' = 0
    /\ examples' = <<>>
    /\ stage_log' = <<"Seeding">>
    /\ learned_patterns' = learned_patterns \cup patterns
    /\ UNCHANGED <<examples_cache, learning_result, batch_start,
                   inflight, batch_responses, results, sample_indices, validations,
                   response, seed_returned, anomalies, teacher_calls, teacher_outcomes,
                   student_calls, student_outcomes, validation_calls, max_inflight>>
    /\ UNCHANGED vb_vars

EnterPipeline(name, q) == EnterPipelineWith(name, q, {})

CallEntry(name, q) ==
    /\ EnterPipeline(name, q)
    /\ UNCHANGED <<rl_vars, bt_vars, co_vars, tr_vars, in_vars>>

GenerateDataset(q) == CallEntry("generate_dataset", q)

\* TeacherModel.generate_seed_data called on its own, as the tests do.
GenerateSeedData(q) == CallEntry("generate_seed_data", q)

\* One iteration of the seed loop up to `await self.provider.generate(...)`.
TeacherIssue ==
    /\ pc = "seed_loop"
    /\ seed_i < SeedQuantity(quantity)
    /\ pc' = "seed_wait"
    /\ teacher_calls' = Append(teacher_calls, seed_i)
    /\ UNCHANGED <<entry, quantity, seed_i, examples, examples_cache, learned_patterns,
                   learning_result, batch_start, inflight, batch_responses, results,
                   sample_indices, validations, response, seed_returned, anomalies,
                   teacher_outcomes, student_calls, student_outcomes, validation_calls,
                   max_inflight, stage_log>>
    /\ UNCHANGED <<vb_vars, rl_vars, bt_vars, co_vars, tr_vars, in_vars>>

\* What the seed loop does with a call that raised.
TeacherFailedAbort ==
    /\ pc' = "raised"
    /\ UNCHANGED <<examples, examples_cache, seed_i>>

TeacherFailed ==
    /\ pc' = "seed_loop"
    /\ seed_i' = seed_i + 1
    /\ UNCHANGED <<examples, examples_cache>>

\* The awaited call settles: the rest of the iteration.
TeacherSettle(outcome) ==
    /\ pc = "seed_wait"
    /\ IsAnomaly(outcome) => anomalies < MaxAnomalies
    /\ anomalies' = IF IsAnomaly(outcome) THEN anomalies + 1 ELSE anomalies
    /\ teacher_outcomes' = Append(teacher_outcomes, outcome)
    /\ IF outcome = "error"
       THEN TeacherFailed
       ELSE LET example == TeacherExample(seed_i,
                               ProviderReply(seed_i, outcome, teacher_max_tokens))
            IN  /\ examples' = Append(examples, example)
                /\ examples_cache' = Append(examples_cache, example)
                /\ seed_i' = seed_i + 1
                /\ pc' = "seed_loop"
    /\ UNCHANGED <<entry, quantity, learned_patterns, learning_result, batch_start,
                   inflight, batch_responses, results, sample_indices, validations,
                   response, seed_returned, teacher_calls, student_calls,
                   student_outcomes, validation_calls, max_inflight, stage_log>>
    /\ UNCHANGED <<vb_vars, rl_vars, bt_vars, co_vars, tr_vars, in_vars>>

\* `for i in range(seed_quantity)` is exhausted; every call before it was awaited.
SeedLoopOverUnawaited ==
    \/ pc = "seed_loop" /\ seed_i >= SeedQuantity(quantity)
    \/ pc = "seed_wait" /\ seed_i + 1 >= SeedQuantity(quantity)

SeedLoopOver == pc = "seed_loop" /\ seed_i >= SeedQuantity(quantity)

\* The seed loop is over: generate_seed_data returns `examples`.
SeedReturn ==
    /\ SeedLoopOver
    /\ IF entry = "generate_dataset"
       THEN /\ pc' = "learning"
            /\ stage_log' = Append(stage_log, "Learning")
            /\ UNCHANGED seed_returned
       ELSE /\ pc' = "seed_done"
            /\ seed_returned' = <<examples>>
            /\ UNCHANGED stage_log
    /\ UNCHANGED <<entry, quantity, seed_i, examples, examples_cache, learned_patterns,
                   learning_result, batch_start, inflight, batch_responses, results,
                   sample_indices, validations, response, anomalies, teacher_calls,
                   teacher_outcomes, student_calls, student_outcomes, validation_calls,
                   max_inflight>>
    /\ UNCHANGED <<vb_vars, rl_vars, bt_vars, co_vars, tr_vars, in_vars>>

-----------------------------------------------------------------------------
(* StudentModel *)

batch_size == 20
student_max_tokens == 500

\* The four categories learn_from_teacher merges into learned_patterns.
PatternCategories ==
    {"common_structures", "response_styles", "quality_indicators", "keyword_mappings"}

\* StudentModel._calculate_learning_confidence
CalculateLearningConfidence == 75

\* StudentModel._estimate_quality
EstimateQuality(reply) == reply.confidence

\* Stage 2: learn_from_teacher is synchronous; generate_bulk_data then starts.
LearnFromTeacher ==
    /\ pc = "learning"
    /\ learned_patterns' = learned_patterns \cup PatternCategories
    /\ learning_result' = [patterns_learned   |-> Cardinality(PatternCategories),
                           examples_processed |-> Len(examples),
                           confidence         |-> CalculateLearningConfidence]
    /\ pc' = "bulk_loop"
    /\ batch_start' = 0
    /\ results' = <<>>
    /\ stage_log' = Append(stage_log, "BulkGenerating")
    /\ UNCHANGED <<entry, quantity, seed_i, examples, examples_cache, inflight,
                   batch_responses, sample_indices, validations, response, seed_returned,
                   anomalies, teacher_calls, teacher_outcomes, student_calls,
                   student_outcomes, validation_calls, max_inflight>>
    /\ UNCHANGED <<vb_vars, rl_vars, bt_vars, co_vars, tr_vars, in_vars>>

\* batch_end of the batch that starts at b.
BatchEndNoClamp(b, q) == b + batch_size
BatchEnd(b, q) == Min(b + batch_size, q)

\* One batch: the coroutines for range(batch_start, batch_end) are created and
\* handed to asyncio.gather, which starts them all.
BulkIssue ==
    /\ pc = "bulk_loop"
    /\ batch_start < quantity
    /\ LET batch_end == BatchEnd(batch_start, quantity)
       IN  /\ student_calls' = student_calls \o Range(batch_start, batch_end)
           /\ inflight' = inflight + (batch_end - batch_start)
           /\ max_inflight' = Max(max_inflight, inflight + (batch_end - batch_start))
    /\ batch_responses' = <<>>
    /\ pc' = "bulk_wait"
    /\ UNCHANGED <<entry, quantity, seed_i, examples, examples_cache, learned_patterns,
                   learning_result, batch_start, results, sample_indices, validations,
                   response, seed_returned, anomalies, teacher_calls, teacher_outcomes,
                   student_outcomes, validation_calls, stage_log>>
    /\ UNCHANGED <<vb_vars, rl_vars, bt_vars, co_vars, tr_vars, in_vars>>

\* One call of the batch settles.  gather() collects outcomes by position, so
\* the order in which the calls complete is not observable; they are settled
\* here in position order.
StudentSettle(outcome) ==
    /\ pc = "bulk_wait"
    /\ inflight > 0
    /\ IsAnomaly(outcome) => anomalies < MaxAnomalies
    /\ anomalies' = IF IsAnomaly(outcome) THEN anomalies + 1 ELSE anomalies
    /\ LET call == batch_start + Len(batch_responses)
       IN  batch_responses' = Append(batch_responses,
               [raised |-> outcome = "error",
                reply  |-> ProviderReply(call, outcome, student_max_tokens)])
    /\ student_outcomes' = Append(student_outcomes, outcome)
    /\ inflight' = inflight - 1
    /\ UNCHANGED <<entry, pc, quantity, seed_i, examples, examples_cache,
                   learned_patterns, learning_result, batch_start, results,
                   sample_indices, validations, response, seed_returned, teacher_calls,
                   teacher_outcomes, student_calls, validation_calls, max_inflight,
                   stage_log>>
    /\ UNCHANGED <<vb_vars, rl_vars, bt_vars, co_vars, tr_vars, in_vars>>

\* When `await asyncio.gather(...)` resumes its caller.
GatherDoneEarly(n) == n <= 1
GatherDone(n) == n = 0

\* The result items of one batch: exceptions are skipped (`continue`).
RECURSIVE BatchItemsStopAtFailure(_)
BatchItemsStopAtFailure(responses) ==
    IF responses = <<>> \/ Head(responses).raised THEN <<>>
    ELSE <<[content          |-> Head(responses).reply.content,
            quality_estimate |-> EstimateQuality(Head(responses).reply)]>>
         \o BatchItemsStopAtFailure(Tail(responses))

RECURSIVE BatchItems(_)
BatchItems(responses) ==
    IF responses = <<>> THEN <<>>
    ELSE (IF Head(responses).raised THEN <<>>
          ELSE <<[content          |-> Head(responses).reply.content,
                  quality_estimate |-> EstimateQuality(Head(responses).reply)]>>)
         \o BatchItems(Tail(responses))

\* gather() returns: the `for response in batch_responses` loop, then the
\* next iteration of the batch loop begins.
BulkGather ==
    /\ pc = "bulk_wait"
    /\ GatherDone(inflight)
    /\ results' = results \o BatchItems(batch_responses)
    /\ batch_start' = batch_start + batch_size
    /\ pc' = "bulk_loop"
    /\ UNCHANGED <<entry, quantity, seed_i, examples, examples_cache, learned_patterns,
                   learning_result, inflight, batch_responses, sample_indices,
                   validations, response, seed_returned, anomalies, teacher_calls,
                   teacher_outcomes, student_calls, student_outcomes, validation_calls,
                   max_inflight, stage_log>>
    /\ UNCHANGED <<vb_vars, rl_vars, bt_vars, co_vars, tr_vars, in_vars>>

\* The batch loop is over: generate_bulk_data returns `results`.
BulkReturn ==
    /\ pc = "bulk_loop"
    /\ batch_start >= quantity
    /\ pc' = "validating"
    /\ stage_log' = Append(stage_log, "Validating")
    /\ UNCHANGED <<entry, quantity, seed_i, examples, examples_cache, learned_patterns,
                   learning_result, batch_start, inflight, batch_responses, results,
                   sample_indices, validations, response, seed_returned, anomalies,
                   teacher_calls, teacher_outcomes, student_calls, student_outcomes,
                   validation_calls, max_inflight>>
    /\ UNCHANGED <<vb_vars, rl_vars, bt_vars, co_vars, tr_vars, in_vars>>

-----------------------------------------------------------------------------
(* QualityValidator *)

\* validate_batch is called by generate_dataset with its default sample_ratio, 0.1.
sample_ratio_percent == 10

\* The score _validate_single falls back to.
DefaultScore == 50

Digits == {"0", "1", "2", "3", "4", "5", "6", "7", "8", "9"}

DigitValue(c) ==
    CASE c = "0" -> 0 [] c = "1" -> 1 [] c = "2" -> 2 [] c = "3" -> 3 [] c = "4" -> 4
      [] c = "5" -> 5 [] c = "6" -> 6 [] c = "7" -> 7 [] c = "8" -> 8 [] c = "9" -> 9

\* str.strip()
RECURSIVE LStrip(_)
LStrip(s) == IF s # <<>> /\ Head(s) = " " THEN LStrip(Tail(s)) ELSE s

RECURSIVE RStrip(_)
RStrip(s) == IF s # <<>> /\ s[Len(s)] = " " THEN RStrip(SubSeq(s, 1, Len(s) - 1)) ELSE s

Strip(s) == RStrip(LStrip(s))

\* str.replace('.', '')
IsNotDot(c) == c # "."
RemoveDots(s) == SelectSeq(s, IsNotDot)

\* str.isdigit()
IsDigit(s) == s # <<>> /\ \A k \in 1..Len(s) : s[k] \in Digits

\* int of a digit string, "" counting as 0.
RECURSIVE DigitsValue(_)
DigitsValue(s) ==
    IF s = <<>> THEN 0 ELSE 10 * DigitsValue(SubSeq(s, 1, Len(s) - 1)) + DigitValue(s[Len(s)])

\* float(s) in hundredths for a text of digits and dots that holds a digit:
\* a ValueError when it holds two dots or more.  Texts carry at most two
\* decimals.
DotPositions(s) == {k \in 1..Len(s) : s[k] = "."}

PyFloat(s) ==
    IF Cardinality(DotPositions(s)) > 1 THEN [raised |-> TRUE, value |-> 0]
    ELSE IF DotPositions(s) = {} THEN [raised |-> FALSE, value |-> 100 * DigitsValue(s)]
    ELSE LET d    == CHOOSE k \in DotPositions(s) : TRUE
             frac == SubSeq(s, d + 1, Len(s))
         IN  [raised |-> FALSE,
              value  |-> 100 * DigitsValue(SubSeq(s, 1, d - 1))
                         + (IF Len(frac) = 0 THEN 0
                            ELSE IF Len(frac) = 1 THEN 10 * DigitsValue(frac)
                            ELSE DigitsValue(SubSeq(frac, 1, 2)))]

\* max(0.0, min(1.0, quality_score))
ClampNone(x) == x
Clamp(x) == Max(0, Min(100, x))

\* The quality_score _validate_single returns for one awaited provider call.
ValidateSingleZeroOnFailure(outcome) ==
    IF outcome.raised THEN 0
    ELSE LET score_text == Strip(outcome.content)
         IN  IF IsDigit(RemoveDots(score_text)) /\ ~PyFloat(score_text).raised
             THEN Clamp(PyFloat(score_text).value)
             ELSE 0

ValidateSingle(outcome) ==
    IF outcome.raised THEN DefaultScore
    ELSE LET score_text == Strip(outcome.content)
         IN  IF IsDigit(RemoveDots(score_text))
             THEN (IF PyFloat(score_text).raised
                   THEN DefaultScore          \* ValueError, caught by `except Exception`
                   ELSE Clamp(PyFloat(score_text).value))
             ELSE Clamp(DefaultScore)

\* sample_size of validate_batch: max(1, int(len(data) * sample_ratio))
SampleSize(n) == Max(1, (n * sample_ratio) \div 100)

\* Stage 4 begins: validate_batch up to `await asyncio.gather(...)`.
\* For an empty list the step len(data) // sample_size is 0 and range() raises
\* ValueError, which nothing catches.
ValidateBatch ==
    /\ pc = "validating"
    /\ LET n    == Len(results)
           step == n \div SampleSize(n)
       IN  IF step = 0
           THEN /\ pc' = "raised"
                /\ UNCHANGED <<sample_indices, validation_calls>>
           ELSE /\ pc' = "validate_wait"
                /\ sample_indices' = SteppedRange(n, step, SampleSize(n))
                /\ validation_calls' = validation_calls \o sample_indices'
    /\ validations' = <<>>
    /\ UNCHANGED <<entry, quantity, seed_i, examples, examples_cache, learned_patterns,
                   learning_result, batch_start, inflight, batch_responses, results,
                   response, seed_returned, anomalies, teacher_calls, teacher_outcomes,
                   student_calls, student_outcomes, max_inflight, stage_log>>
    /\ UNCHANGED <<vb_vars, rl_vars, bt_vars, co_vars, tr_vars, in_vars>>

\* The dict validate_batch returns once gather() has returned `validations`;
\* the validations are kept as their quality_score.
ValidationResult(scores) ==
    LET avg_quality == [num |-> SumSeq(scores), den |-> Len(scores)]
    IN  [average_quality |-> avg_quality,
         sample_size     |-> Len(scores),
         validations     |-> scores,
         meets_threshold |-> avg_quality.num >= 80 * avg_quality.den]

\* QualityValidator.validate_batch(data, sample_ratio) called on its own, up to
\* the computation of sample_size; the items are numbered like student items.
CallValidateBatch(n, ratio) ==
    /\ entry = "none"
    /\ entry' = "validate_batch"
    /\ pc' = "validating"
    /\ results' = [k \in 1..n |-> [content |-> k - 1, quality_estimate |-> 0]]
    /\ sample_ratio' = ratio
    /\ UNCHANGED <<quantity, seed_i, examples, examples_cache, learned_patterns,
                   learning_result, batch_start, inflight, batch_responses,
                   sample_indices, validations, response, seed_returned, anomalies,
                   teacher_calls, teacher_outcomes, student_calls, student_outcomes,
                   validation_calls, max_inflight, stage_log>>
    /\ UNCHANGED <<validation_returned, validation_outcomes>>
    /\ UNCHANGED <<rl_vars, bt_vars, co_vars, tr_vars, in_vars>>

\* gather() returns to validate_batch called on its own, which returns its dict.
ValidateBatchReturn ==
    /\ entry = "validate_batch"
    /\ pc = "validate_wait"
    /\ Len(validations) = Len(sample_indices)
    /\ validation_returned' = <<ValidationResult(validations)>>
    /\ pc' = "validated"
    /\ UNCHANGED <<entry, quantity, seed_i, examples, examples_cache, learned_patterns,
                   learning_result, batch_start, inflight, batch_responses, results,
                   sample_indices, validations, response, seed_returned, anomalies,
                   teacher_calls, teacher_outcomes, student_calls, student_outcomes,
                   validation_calls, max_inflight, stage_log>>
    /\ UNCHANGED <<sample_ratio, validation_outcomes>>
    /\ UNCHANGED <<rl_vars, bt_vars, co_vars, tr_vars, in_vars>>

\* One validation call settles (in position order, as for the student's gather).
ValidationSettle(outcome) ==
    /\ pc = "validate_wait"
    /\ Len(validations) < Len(sample_indices)
    /\ validations' = Append(validations, ValidateSingle(outcome))
    /\ validation_outcomes' = Append(validation_outcomes, outcome)
    /\ UNCHANGED <<entry, pc, quantity, seed_i, examples, examples_cache,
                   learned_patterns, learning_result, batch_start, inflight,
                   batch_responses, results, sample_indices, response, seed_returned,
                   anomalies, teacher_calls, teacher_outcomes, student_calls,
                   student_outcomes, validation_calls, max_inflight, stage_log>>
    /\ UNCHANGED <<sample_ratio, validation_returned>>
    /\ UNCHANGED <<rl_vars, bt_vars, co_vars, tr_vars, in_vars>>

-----------------------------------------------------------------------------
(* KnowledgeDistillationOrchestrator *)

\* _calculate_total_cost, in thousandths: tokens_used * 0.01 per example plus
\* 0.001 per student item.
RECURSIVE TeacherCost(_)
TeacherCost(exs) ==
    IF exs = <<>> THEN 0 ELSE Head(exs).tokens_used * 10 + TeacherCost(Tail(exs))

CalculateTotalCost(teacher_examples, student_data) ==
    TeacherCost(teacher_examples) + Len(student_data) * 1

\* all_data of generate_dataset
TeacherItemsOfCache(teacher_examples) ==
    [k \in 1..Len(examples_cache) |->
        [content |-> examples_cache[k].output, source |-> "teacher",
         quality |-> examples_cache[k].confidence]]

TeacherItems(teacher_examples) ==
    [k \in 1..Len(teacher_examples) |->
        [content |-> teacher_examples[k].output, source |-> "teacher",
         quality |-> teacher_examples[k].confidence]]

StudentItems(student_data) ==
    [k \in 1..Len(student_data) |->
        [content |-> student_data[k].content, source |-> "student",
         quality |-> student_data[k].quality_estimate]]

AllDataStudentFirst(teacher_examples, student_data) ==
    StudentItems(student_data) \o TeacherItems(teacher_examples)

AllData(teacher_examples, student_data) ==
    TeacherItems(teacher_examples) \o StudentItems(student_data)

\* metadata of the GenerationResponse
ResponseMetadataRequested(teacher_examples, student_data, learning, validation_result) ==
    [teacher_examples        |-> Len(teacher_examples),
     student_generated       |-> quantity,
     learning_confidence     |-> learning.confidence,
     validation_sample_size  |-> validation_result.sample_size,
     meets_quality_threshold |-> validation_result.meets_threshold]

ResponseMetadata(teacher_examples, student_data, learning, validation_result) ==
    [teacher_examples        |-> Len(teacher_examples),
     student_generated       |-> Len(student_data),
     learning_confidence     |-> learning.confidence,
     validation_sample_size  |-> validation_result.sample_size,
     meets_quality_threshold |-> validation_result.meets_threshold]

\* gather() of validate_batch returns: the average, the validation result, and
\* the rest of generate_dataset up to its return.
ValidateReturn ==
    /\ entry = "generate_dataset"
    /\ pc = "validate_wait"
    /\ Len(validations) = Len(sample_indices)
    /\ LET validation_result == ValidationResult(validations)
       IN  response' = <<[data          |-> AllData(examples, results),
                          quality_score |-> validation_result.average_quality,
                          cost          |-> CalculateTotalCost(examples, results),
                          metadata      |->
                              ResponseMetadata(examples, results, learning_result,
                                               validation_result)]>>
    /\ pc' = "done"
    /\ stage_log' = Append(stage_log, "Done")
    /\ UNCHANGED <<entry, quantity, seed_i, examples, examples_cache, learned_patterns,
                   learning_result, batch_start, inflight, batch_responses, results,
                   sample_indices, validations, seed_returned, anomalies, teacher_calls,
                   teacher_outcomes, student_calls, student_outcomes, validation_calls,
                   max_inflight>>
    /\ UNCHANGED <<vb_vars, rl_vars, bt_vars, co_vars, tr_vars, in_vars>>

-----------------------------------------------------------------------------
(* RateLimiter *)

\* The sliding window, in seconds.
Window == 60

Callers == 1..NumCallers

\* [t for t in self.request_times if t > cutoff]
PruneKeepAll(times, cutoff) == times
Prune(times, cutoff) ==
    LET Recent(t) == t > cutoff IN SelectSeq(times, Recent)

\* `len(self.request_times) >= self.requests_per_minute`
AtLimitOffByOne(times, limit) == Len(times) > limit
AtLimit(times, limit) == Len(times) >= limit

\* wait_if_needed from its start to its first suspension point, or to its end
\* when it does not sleep.
WaitIfNeeded(c) ==
    /\ rl_pc[c] = "idle"
    /\ rl_started < MaxCalls
    /\ rl_started' = rl_started + 1
    /\ rl_overlap' = (rl_overlap \/ \E d \in Callers : rl_pc[d] = "sleeping")
    /\ LET now    == clock
           pruned == Prune(request_times, now - Window)
       IN  IF AtLimit(pruned, requests_per_minute)
              /\ Window - (now - pruned[1]) > 0
           THEN /\ request_times' = pruned
                /\ rl_pc' = [rl_pc EXCEPT ![c] = "sleeping"]
                /\ rl_wake' = [rl_wake EXCEPT ![c] = now + (Window - (now - pruned[1]))]
                /\ rl_suspended' = [rl_suspended EXCEPT ![c] = @ + 1]
                /\ UNCHANGED rl_returned
           ELSE /\ request_times' = Append(pruned, now)
                /\ rl_returned' = [rl_returned EXCEPT ![c] = @ + 1]
                /\ UNCHANGED <<rl_pc, rl_wake, rl_suspended>>
    /\ UNCHANGED <<requests_per_minute, clock, rl_time_between>>
    /\ UNCHANGED <<pipe_vars, bt_vars, co_vars, tr_vars, in_vars>>

\* asyncio.sleep(wait_time) is over: the clean-up after waiting, then the
\* caller's own timestamp is recorded.
WakeUpRecheck(c) ==
    /\ rl_pc[c] = "sleeping"
    /\ clock >= rl_wake[c]
    /\ LET now    == clock
           pruned == Prune(request_times, now - Window)
       IN  IF AtLimit(pruned, requests_per_minute)
              /\ Window - (now - pruned[1]) > 0
           THEN /\ request_times' = pruned
                /\ rl_wake' = [rl_wake EXCEPT ![c] = now + (Window - (now - pruned[1]))]
                /\ rl_suspended' = [rl_suspended EXCEPT ![c] = @ + 1]
                /\ UNCHANGED <<rl_pc, rl_returned>>
           ELSE /\ request_times' = Append(pruned, now)
                /\ rl_pc' = [rl_pc EXCEPT ![c] = "idle"]
                /\ rl_returned' = [rl_returned EXCEPT ![c] = @ + 1]
                /\ UNCHANGED <<rl_wake, rl_suspended>>
    /\ UNCHANGED <<requests_per_minute, clock, rl_started, rl_time_between, rl_overlap>>
    /\ UNCHANGED <<pipe_vars, bt_vars, co_vars, tr_vars, in_vars>>

WakeUp(c) ==
    /\ rl_pc[c] = "sleeping"
    /\ clock >= rl_wake[c]
    /\ LET now == clock
       IN  request_times' = Append(Prune(request_times, now - Window), now)
    /\ rl_pc' = [rl_pc EXCEPT ![c] = "idle"]
    /\ rl_returned' = [rl_returned EXCEPT ![c] = @ + 1]
    /\ UNCHANGED <<requests_per_minute, clock, rl_wake, rl_suspended, rl_started,
                   rl_time_between, rl_overlap>>
    /\ UNCHANGED <<pipe_vars, bt_vars, co_vars, tr_vars, in_vars>>

\* Time passes.
Tick ==
    /\ clock + TickSeconds <= MaxClock
    /\ clock' = clock + TickSeconds
    /\ rl_time_between' = (rl_time_between \/ \A c \in Callers : rl_pc[c] # "sleeping")
    /\ UNCHANGED <<requests_per_minute, request_times, rl_pc, rl_wake, rl_returned,
                   rl_suspended, rl_started, rl_overlap>>
    /\ UNCHANGED <<pipe_vars, bt_vars, co_vars, tr_vars, in_vars>>

-----------------------------------------------------------------------------
(* BudgetTracker (cost_optimizer.py).  Amounts of money are hundredths of a  *)
(* currency unit.  An Optional[float] is <<>> for None and <<v>> for v.      *)

\* The Optional[float] ceilings of CostBudget are tested by truthiness:
\* None and 0.0 are both false.
Truthy(opt) == opt # <<>> /\ opt[1] # 0

\* strftime('%Y-%m-%d') and strftime('%Y-%m-%d %H') of a timestamp
DateKey(timestamp) == timestamp.day
HourKey(timestamp) == <<timestamp.day, timestamp.hour>>

\* d[k] of a defaultdict(float): the value read, and the dict after the read
\* (a missing key is inserted with float() = 0.0).
DefaultRead(d, k) == IF k \in DOMAIN d THEN d[k] ELSE 0
AfterDefaultRead(d, k) == IF k \in DOMAIN d THEN d ELSE d @@ (k :> 0)

\* d[k] += amount of a defaultdict(float)
DefaultAddOverwrite(d, k, amount) ==
    [j \in DOMAIN d \cup {k} |-> IF j = k THEN amount ELSE d[j]]

DefaultAdd(d, k, amount) ==
    [j \in DOMAIN d \cup {k} |-> IF j = k THEN DefaultRead(d, k) + amount ELSE d[j]]

TrackerState ==
    [total_spending  |-> total_spending,
     daily_spending  |-> daily_spending,
     hourly_spending |-> hourly_spending]

NoBudget == [total_budget |-> 0, daily_budget |-> <<>>, hourly_budget |-> <<>>]
NoResult ==
    [raised |-> FALSE, within_budget |-> FALSE, issues |-> <<>>,
     remaining_total |-> 0, utilization |-> <<>>]
NoCall ==
    [op |-> "none", budget |-> NoBudget, amount |-> 0, now |-> [day |-> 0, hour |-> 0],
     before |-> [total_spending |-> 0, daily_spending |-> <<>>, hourly_spending |-> <<>>],
     result |-> NoResult]

\* track_spending(amount, timestamp)
TrackSpending(amount, timestamp_opt) ==
    /\ bt_ops < MaxBudgetOps
    /\ LET timestamp == IF timestamp_opt = <<>> THEN bt_now ELSE timestamp_opt[1]
       IN  /\ total_spending' = total_spending + amount
           /\ daily_spending' = DefaultAdd(daily_spending, DateKey(timestamp), amount)
           /\ hourly_spending' = DefaultAdd(hourly_spending, HourKey(timestamp), amount)
    /\ bt_ops' = bt_ops + 1
    /\ bt_prev' = bt_last
    /\ bt_last' = [NoCall EXCEPT !.op = "track", !.amount = amount, !.now = bt_now,
                                 !.before = TrackerState]
    /\ UNCHANGED bt_now
    /\ UNCHANGED <<pipe_vars, rl_vars, co_vars, tr_vars, in_vars>>

\* One entry of `issues`
Issue(type, current, limit, additional) ==
    [type |-> type, current |-> current, limit |-> limit, additional |-> additional]

\* The `issues` list built by check_budget_constraints
BudgetIssues(budget, additional_cost) ==
    LET daily_spent  == DefaultRead(daily_spending, DateKey(bt_now))
        hourly_spent == DefaultRead(hourly_spending, HourKey(bt_now))
    IN  (IF total_spending + additional_cost > budget.total_budget
         THEN <<Issue("total_budget_exceeded", total_spending, budget.total_budget,
                      additional_cost)>>
         ELSE <<>>)
        \o
        (IF Truthy(budget.daily_budget)
            /\ daily_spent + additional_cost > budget.daily_budget[1]
         THEN <<Issue("daily_budget_exceeded", daily_spent, budget.daily_budget[1],
                      additional_cost)>>
         ELSE <<>>)
        \o
        (IF Truthy(budget.hourly_budget)
            /\ hourly_spent + additional_cost > budget.hourly_budget[1]
         THEN <<Issue("hourly_budget_exceeded", hourly_spent, budget.hourly_budget[1],
                      additional_cost)>>
         ELSE <<>>)

\* What check_budget_constraints returns; the division of `utilization` raises
\* ZeroDivisionError when total_budget is 0.
BudgetCheckResult(budget, additional_cost) ==
    IF budget.total_budget = 0
    THEN [NoResult EXCEPT !.raised = TRUE]
    ELSE LET issues == BudgetIssues(budget, additional_cost)
         IN  [raised          |-> FALSE,
              within_budget   |-> Len(issues) = 0,
              issues          |-> issues,
              remaining_total |-> budget.total_budget - total_spending,
              utilization     |-> <<total_spending, budget.total_budget>>]

\* total_spending after check_budget_constraints, which never assigns it
TotalAfterCheckCommitted(additional_cost) == total_spending + additional_cost

TotalAfterCheck(additional_cost) == total_spending

\* check_budget_constraints(budget, additional_cost)
CheckBudgetConstraints(budget, additional_cost) ==
    /\ bt_ops < MaxBudgetOps
    /\ total_spending' = TotalAfterCheck(additional_cost)
    /\ daily_spending' =
           IF Truthy(budget.daily_budget)
           THEN AfterDefaultRead(daily_spending, DateKey(bt_now))
           ELSE daily_spending
    /\ hourly_spending' =
           IF Truthy(budget.hourly_budget)
           THEN AfterDefaultRead(hourly_spending, HourKey(bt_now))
           ELSE hourly_spending
    /\ bt_ops' = bt_ops + 1
    /\ bt_prev' = bt_last
    /\ bt_last' = [op |-> "check", budget |-> budget, amount |-> additional_cost,
                   now |-> bt_now, before |-> TrackerState,
                   result |-> BudgetCheckResult(budget, additional_cost)]
    /\ UNCHANGED bt_now
    /\ UNCHANGED <<pipe_vars, rl_vars, co_vars, tr_vars, in_vars>>

\* The wall clock moves on to the next hour, or to the start of the next day.
BudgetTick ==
    /\ \/ /\ bt_now.hour < MaxHour
          /\ bt_now' = [bt_now EXCEPT !.hour = @ + 1]
       \/ /\ bt_now.day < MaxDay
          /\ bt_now' = [day |-> bt_now.day + 1, hour |-> 0]
    /\ UNCHANGED <<total_spending, daily_spending, hourly_spending, bt_ops, bt_last,
                   bt_prev>>
    /\ UNCHANGED <<pipe_vars, rl_vars, co_vars, tr_vars, in_vars>>

-----------------------------------------------------------------------------
(* IntelligentCostOptimizer (cost_optimizer.py).                             *)
(* Units: the per-1000-token rates of a profile are thousandths of a         *)
(* currency unit, so tokens * rate is a cost in millionths; budgets and the  *)
(* per-item ceiling are millionths; quality and reliability ratings, and     *)
(* scores, are thousandths; estimated time is milliseconds.                  *)

\* f"{profile.provider}_{profile.model_name}"
ProfileKey(profile) == profile.provider \o "_" \o profile.model_name

\* The keys of model_profiles, in insertion order
ProfileKeys == [k \in 1..Len(model_profiles) |-> model_profiles[k].key]

KeyRegistered(model_key) == \E k \in 1..Len(model_profiles) : ProfileKeys[k] = model_key

\* self.model_profiles[model_key]
ProfileOf(model_key) ==
    model_profiles[CHOOSE k \in 1..Len(model_profiles) : ProfileKeys[k] = model_key].profile

\* register_model_profile(profile): a new key goes to the end of the dict, a
\* known key keeps its place.
RegisterModelProfile(profile) ==
    /\ co_last.op = "none"
    /\ LET key == ProfileKey(profile)
       IN  model_profiles' =
               IF KeyRegistered(key)
               THEN [k \in 1..Len(model_profiles) |->
                        IF ProfileKeys[k] = key
                        THEN [key |-> key, profile |-> profile]
                        ELSE model_profiles[k]]
               ELSE Append(model_profiles, [key |-> key, profile |-> profile])
    /\ UNCHANGED <<cost_history, quality_history, optimization_rules, co_clock, co_last,
                   co_tracked>>
    /\ UNCHANGED <<pipe_vars, rl_vars, bt_vars, tr_vars, in_vars>>

\* _estimate_input_tokens
base_prompt_tokens == 100

EstimateInputTokens(request) ==
    base_prompt_tokens + request.n_keywords * 5 + request.context_len \div 4

\* _estimate_output_tokens
TokensPerItem(data_type) ==
    CASE data_type = "qa"             -> 50
      [] data_type = "classification" -> 20
      [] data_type = "generation"     -> 100
      [] data_type = "code"           -> 150
      [] data_type = "translation"    -> 80
      [] OTHER                        -> 75

EstimateOutputTokens(request) == TokensPerItem(request.data_type) * request.quantity

\* estimate_generation_cost for a registered profile
EstimateGenerationCost(request, profile) ==
    LET input_tokens  == EstimateInputTokens(request)
        output_tokens == EstimateOutputTokens(request)
    IN  [estimated_input_tokens  |-> input_tokens,
         estimated_output_tokens |-> output_tokens,
         estimated_cost          |-> input_tokens * profile.input_cost_per_token
                                         + output_tokens * profile.output_cost_per_token,
         estimated_time          |-> (request.quantity * 1000) \div profile.speed_rating,
         quality_expectation     |-> profile.quality_rating,
         confidence              |-> profile.reliability_rating]

\* _meets_budget_constraints
MeetsBudgetConstraintsNoTotal(estimate, budget) ==
    /\ Truthy(budget.cost_per_item_limit)
           => ~(estimate.estimated_cost
                    > budget.cost_per_item_limit[1]
                          * Max(1, estimate.estimated_output_tokens \div 50))
    /\ budget.quality_cost_ratio_min # 0
           => ~(estimate.quality_expectation * 1000
                    < budget.quality_cost_ratio_min * Max(1000, estimate.estimated_cost))

MeetsBudgetConstraints(estimate, budget) ==
    /\ ~(estimate.estimated_cost > budget.total_budget)
    /\ Truthy(budget.cost_per_item_limit)
           => ~(estimate.estimated_cost
                    > budget.cost_per_item_limit[1]
                          * Max(1, estimate.estimated_output_tokens \div 50))
    /\ budget.quality_cost_ratio_min # 0
           => ~(estimate.quality_expectation * 1000
                    < budget.quality_cost_ratio_min * Max(1000, estimate.estimated_cost))

\* np.mean and np.percentile(..., 75) of _calculate_adaptive_score work on the
\* last ten records of cost_history.
RECURSIVE InsertSorted(_, _)
InsertSorted(sorted, x) ==
    IF sorted = <<>> THEN <<x>>
    ELSE IF x < Head(sorted) THEN <<x>> \o sorted
    ELSE <<Head(sorted)>> \o InsertSorted(Tail(sorted), x)

RECURSIVE Sorted(_)
Sorted(seq) == IF seq = <<>> THEN <<>> ELSE InsertSorted(Sorted(Tail(seq)), Head(seq))

RecentPerformance == SubSeq(cost_history, Len(cost_history) - 9, Len(cost_history))

\* avg_quality < 0.7
RecentQualityPoor ==
    SumSeq([k \in 1..10 |-> RecentPerformance[k].actual_quality]) < 7000

\* avg_cost > the 75th percentile of the ten costs, which numpy interpolates
\* between the 7th and the 8th smallest: 0.25 * v7 + 0.75 * v8.
RecentCostSkewed ==
    LET costs == [k \in 1..10 |-> RecentPerformance[k].actual_cost]
        v     == Sorted(costs)
    IN  4 * SumSeq(costs) > 10 * (v[7] + 3 * v[8])

\* 1.0 / (estimated_cost + 0.001) and 1.0 / (estimated_time + 0.001)
CostScore(estimate) == 1000000000 \div (estimate.estimated_cost + 1000)
SpeedScore(estimate) == 1000000 \div (estimate.estimated_time + 1)

\* a * b of two numbers in thousandths
MulMilli(a, b) == (a \div 1000) * b + ((a % 1000) * b) \div 1000

\* _calculate_adaptive_score
CalculateAdaptiveScore(estimate) ==
    LET base_score == (estimate.quality_expectation * 1000000)
                          \div (estimate.estimated_cost + 1000)
    IN  IF Len(cost_history) > 10
        THEN IF RecentQualityPoor
             THEN MulMilli(base_score, 1000 + estimate.quality_expectation)
             ELSE IF RecentCostSkewed
                  THEN base_score + MulMilli(base_score, CostScore(estimate))
                  ELSE base_score
        ELSE base_score

Strategies == {"cost_first", "quality_first", "balanced", "adaptive"}

\* _calculate_optimization_score
CalculateOptimizationScore(estimate, strategy) ==
    LET cost_score       == CostScore(estimate)
        quality_score    == estimate.quality_expectation
        speed_score      == SpeedScore(estimate)
        confidence_score == estimate.confidence
    IN  CASE strategy = "cost_first" ->
                 (cost_score * 7 + quality_score * 2 + confidence_score * 1) \div 10
          [] strategy = "quality_first" ->
                 (quality_score * 7 + confidence_score * 2 + cost_score * 1) \div 10
          [] strategy = "balanced" ->
                 (cost_score * 3 + quality_score * 3 + speed_score * 2
                      + confidence_score * 2) \div 10
          [] OTHER -> CalculateAdaptiveScore(estimate)

\* The evaluation of one profile in the loop of optimize_model_selection
Candidate(entry_, request, strategy) ==
    LET estimate == EstimateGenerationCost(request, entry_.profile)
    IN  [model_key |-> entry_.key,
         profile   |-> entry_.profile,
         estimate  |-> estimate,
         score     |-> CalculateOptimizationScore(estimate, strategy)]

\* The list `candidates` after the loop: the profiles that meet the budget
\* constraints, in the order of model_profiles.
RECURSIVE CandidatesFrom(_, _, _, _)
CandidatesFrom(k, request, budget, strategy) ==
    IF k > Len(model_profiles) THEN <<>>
    ELSE LET c == Candidate(model_profiles[k], request, strategy)
         IN  (IF MeetsBudgetConstraints(c.estimate, budget) THEN <<c>> ELSE <<>>)
                 \o CandidatesFrom(k + 1, request, budget, strategy)

Candidates(request, budget, strategy) == CandidatesFrom(1, request, budget, strategy)

\* candidates.sort(key=score, reverse=True): a stable sort, equal scores keep
\* their order.
RECURSIVE InsertByScore(_, _)
InsertByScoreAscending(sorted, c) ==
    IF sorted = <<>> THEN <<c>>
    ELSE IF c.score < Head(sorted).score THEN <<c>> \o sorted
    ELSE <<Head(sorted)>> \o InsertByScore(Tail(sorted), c)

InsertByScore(sorted, c) ==
    IF sorted = <<>> THEN <<c>>
    ELSE IF c.score > Head(sorted).score THEN <<c>> \o sorted
    ELSE <<Head(sorted)>> \o InsertByScore(Tail(sorted), c)

RECURSIVE SortByScore(_)
SortByScore(cands) ==
    IF cands = <<>> THEN <<>>
    ELSE InsertByScore(SortByScore(SubSeq(cands, 1, Len(cands) - 1)), cands[Len(cands)])

NoRequest ==
    [data_type |-> "", quantity |-> 0, n_keywords |-> 0, context_len |-> 0,
     quality_threshold |-> 0]
NoSelectionBudget ==
    [total_budget |-> 0, cost_per_item_limit |-> <<>>, quality_cost_ratio_min |-> 0]
NoOptimization ==
    [op |-> "none", request |-> NoRequest, budget |-> NoSelectionBudget, strategy |-> "",
     outcome |-> "none", error |-> "", value |-> <<>>]

\* The dict returned by optimize_model_selection
Recommendation(sorted, budget, strategy) ==
    LET best_candidate == sorted[1]
    IN  [recommended_model  |-> best_candidate.model_key,
         estimated_cost     |-> best_candidate.estimate.estimated_cost,
         estimated_quality  |-> best_candidate.estimate.quality_expectation,
         estimated_time     |-> best_candidate.estimate.estimated_time,
         alternatives       |->
             [k \in 1..(Min(5, Len(sorted)) - 1) |->
                 [model   |-> sorted[k + 1].model_key,
                  cost    |-> sorted[k + 1].estimate.estimated_cost,
                  quality |-> sorted[k + 1].estimate.quality_expectation,
                  score   |-> sorted[k + 1].score]],
         strategy_used      |-> strategy,
         budget_utilization |-> <<best_candidate.estimate.estimated_cost,
                                  budget.total_budget>>]

\* optimize_model_selection(request, budget, strategy)
OptimizeModelSelection(request, budget, strategy) ==
    /\ co_last.op = "none"
    /\ LET candidates == Candidates(request, budget, strategy)
           sorted     == SortByScore(candidates)
           call       == [NoOptimization EXCEPT !.op = "optimize_model_selection",
                                                !.request = request,
                                                !.budget = budget,
                                                !.strategy = strategy]
       IN  co_last' =
               IF candidates = <<>>
               THEN [call EXCEPT !.outcome = "raised", !.error = "ValueError"]
               ELSE IF budget.total_budget = 0
               THEN [call EXCEPT !.outcome = "raised", !.error = "ZeroDivisionError"]
               ELSE [call EXCEPT !.outcome = "returned",
                                 !.value = <<Recommendation(sorted, budget, strategy)>>]
    /\ UNCHANGED <<model_profiles, cost_history, quality_history, optimization_rules,
                   co_clock, co_tracked>>
    /\ UNCHANGED <<pipe_vars, rl_vars, bt_vars, tr_vars, in_vars>>

\* _select_best_teacher_model, when a profile is registered: the first key of
\* the highest quality_rating among those above 0.8, else the first key.
SelectBestTeacherModel ==
    LET teacher_models ==
            {k \in 1..Len(model_profiles) : model_profiles[k].profile.quality_rating > 800}
    IN  IF teacher_models = {}
        THEN ProfileKeys[1]
        ELSE ProfileKeys[
                 CHOOSE k \in teacher_models :
                     \A j \in teacher_models :
                         \/ model_profiles[j].profile.quality_rating
                                < model_profiles[k].profile.quality_rating
                         \/ /\ model_profiles[j].profile.quality_rating
                                   = model_profiles[k].profile.quality_rating
                            /\ k <= j]

\* _select_best_student_model, when a profile is registered: the first key of
\* the lowest input rate among those below 0.01, else the first key.
SelectBestStudentModel ==
    LET student_models ==
            {k \in 1..Len(model_profiles) :
                 model_profiles[k].profile.input_cost_per_token < 10}
    IN  IF student_models = {}
        THEN ProfileKeys[1]
        ELSE ProfileKeys[
                 CHOOSE k \in student_models :
                     \A j \in student_models :
                         \/ model_profiles[j].profile.input_cost_per_token
                                > model_profiles[k].profile.input_cost_per_token
                         \/ /\ model_profiles[j].profile.input_cost_per_token
                                   = model_profiles[k].profile.input_cost_per_token
                            /\ k <= j]

\* np.arange(0.05, 0.5, 0.05) has ceil((0.5 - 0.05) / 0.05) = 9 elements,
\* 0.05 * i for i = 1..9; a ratio is kept as its number i of twentieths.
TeacherRatios == 1..9

\* int(total_quantity * teacher_ratio)
TeacherQuantity(total_quantity, i) == (total_quantity * 5 * i) \div 100

\* a / b > c / d for naturals a, c and positive b, d, by continued fractions
RECURSIVE FracGreater(_, _, _, _)
FracGreater(a, b, c, d) ==
    IF a \div b # c \div d THEN a \div b > c \div d
    ELSE IF a % b = 0 THEN FALSE
    ELSE IF c % d = 0 THEN TRUE
    ELSE FracGreater(d, c % d, b, a % b)

\* score > best_score.  A score is the quotient [num, den]; best_score is <<>>
\* while it is the initial -1.  numpy's float64 division by 0.0 gives inf for
\* a positive numerator and nan for 0.0 / 0.0, and nan > x is false.
ScoreGreater(score, best_score) ==
    IF score.den = 0 /\ score.num = 0 THEN FALSE
    ELSE IF best_score = <<>> THEN TRUE
    ELSE IF best_score[1].den = 0 THEN FALSE
    ELSE IF score.den = 0 THEN TRUE
    ELSE FracGreater(score.num, score.den, best_score[1].num, best_score[1].den)

\* The body of the loop for one teacher_ratio, up to the two `continue`s:
\* the allocation it would record.
AllocationAt(i, request) ==
    LET teacher_quantity == TeacherQuantity(request.quantity, i)
        student_quantity == request.quantity - teacher_quantity
        teacher_model    == SelectBestTeacherModel
        student_model    == SelectBestStudentModel
        teacher_estimate == EstimateGenerationCost(
                                [request EXCEPT !.quantity = teacher_quantity],
                                ProfileOf(teacher_model))
        student_estimate == EstimateGenerationCost(
                                [request EXCEPT !.quantity = student_quantity],
                                ProfileOf(student_model))
        total_cost       == teacher_estimate.estimated_cost
                                + student_estimate.estimated_cost
        \* in units of 1/20000
        expected_quality == teacher_estimate.quality_expectation * i
                                + student_estimate.quality_expectation * (20 - i)
    IN  [teacher_model    |-> teacher_model,
         student_model    |-> student_model,
         teacher_quantity |-> teacher_quantity,
         student_quantity |-> student_quantity,
         teacher_cost     |-> teacher_estimate.estimated_cost,
         student_cost     |-> student_estimate.estimated_cost,
         total_cost       |-> total_cost,
         expected_quality |-> expected_quality,
         teacher_ratio    |-> i,
         efficiency_score |-> [num |-> expected_quality, den |-> total_cost]]

\* if total_cost > budget.total_budget: continue
OverBudgetNever(allocation, budget) == FALSE

OverBudget(allocation, budget) == allocation.total_cost > budget.total_budget

\* if expected_quality < quality_threshold: continue
BelowThresholdNever(allocation, request) == FALSE

BelowThreshold(allocation, request) ==
    allocation.expected_quality < request.quality_threshold * 20

\* efficiency = expected_quality / total_cost, on the scale of the score
AllocationEfficiency(allocation) ==
    [num |-> allocation.expected_quality * 20, den |-> allocation.total_cost]

\* score = efficiency * (1 - abs(teacher_ratio - 0.2))
AllocationScore(allocation) ==
    LET i == allocation.teacher_ratio
    IN  [num |-> allocation.expected_quality * (20 - (IF i > 4 THEN i - 4 ELSE 4 - i)),
         den |-> allocation.total_cost]

\* The loop over the ratios from the i-th on, with best_allocation and
\* best_score as they stand.
RECURSIVE AllocationLoop(_, _, _, _)
AllocationLoop(i, best, request, budget) ==
    IF i \notin TeacherRatios THEN best
    ELSE LET allocation == AllocationAt(i, request)
             score      == AllocationScore(allocation)
         IN  IF \/ OverBudget(allocation, budget)
                \/ BelowThreshold(allocation, request)
                \/ ~ScoreGreater(score, best.best_score)
             THEN AllocationLoop(i + 1, best, request, budget)
             ELSE AllocationLoop(i + 1,
                                 [best_allocation |-> <<allocation>>,
                                  best_score      |-> <<score>>],
                                 request, budget)

NoViableAllocation == [error |-> "No viable allocation found"]

\* optimize_teacher_student_allocation(request, budget)
OptimizeTeacherStudentAllocation(request, budget) ==
    /\ co_last.op = "none"
    /\ LET call == [NoOptimization EXCEPT !.op = "optimize_teacher_student_allocation",
                                          !.request = request,
                                          !.budget = budget]
       IN  co_last' =
               IF model_profiles = <<>>
               THEN [call EXCEPT !.outcome = "raised", !.error = "IndexError"]
               ELSE LET best == AllocationLoop(1, [best_allocation |-> <<>>,
                                                   best_score      |-> <<>>],
                                               request, budget)
                    IN  [call EXCEPT !.outcome = "returned",
                                     !.value = IF best.best_allocation = <<>>
                                               THEN <<NoViableAllocation>>
                                               ELSE best.best_allocation]
    /\ UNCHANGED <<model_profiles, cost_history, quality_history, optimization_rules,
                   co_clock, co_tracked>>
    /\ UNCHANGED <<pipe_vars, rl_vars, bt_vars, tr_vars, in_vars>>

\* The fields of the optimizer that track_actual_performance works on
OptimizerState ==
    [model_profiles     |-> model_profiles,
     cost_history       |-> cost_history,
     quality_history    |-> quality_history,
     optimization_rules |-> optimization_rules,
     co_clock           |-> co_clock]

\* IntelligentCostOptimizer.__init__
FreshOptimizer ==
    [model_profiles     |-> <<>>,
     cost_history       |-> <<>>,
     quality_history    |-> <<>>,
     optimization_rules |-> <<>>,
     co_clock           |-> 0]

\* _update_model_profile: exponential moving averages of the ratings of a
\* registered key; an unregistered key changes nothing.
UpdateModelProfileOverwrite(profiles, record) ==
    [k \in 1..Len(profiles) |->
        IF profiles[k].key = record.model_key
        THEN [profiles[k] EXCEPT
                 !.profile.quality_rating = record.actual_quality,
                 !.profile.reliability_rating = (95 * @ + 5000) \div 100,
                 !.profile.last_updated = record.timestamp]
        ELSE profiles[k]]

UpdateModelProfileEveryKey(profiles, record) ==
    [k \in 1..Len(profiles) |->
        [profiles[k] EXCEPT
            !.profile.quality_rating = (9 * @ + record.actual_quality) \div 10,
            !.profile.reliability_rating = (95 * @ + 5000) \div 100,
            !.profile.last_updated = record.timestamp]]

UpdateModelProfile(profiles, record) ==
    IF \A k \in 1..Len(profiles) : profiles[k].key # record.model_key
    THEN profiles
    ELSE [k \in 1..Len(profiles) |->
             IF profiles[k].key = record.model_key
             THEN [profiles[k] EXCEPT
                      !.profile.quality_rating = (9 * @ + record.actual_quality) \div 10,
                      !.profile.reliability_rating = (95 * @ + 5000) \div 100,
                      !.profile.last_updated = record.timestamp]
             ELSE profiles[k]]

\* Keep only last 100 records
performance_history_limit == 100

TrimKeepFirst(history) ==
    IF Len(history) > performance_history_limit
    THEN SubSeq(history, 1, performance_history_limit)
    ELSE history

Trim(history) ==
    IF Len(history) > performance_history_limit
    THEN SubSeq(history, Len(history) - performance_history_limit + 1, Len(history))
    ELSE history

\* The entry appended to a key's 'performance_history'
RuleRecord(record) ==
    [quality |-> record.actual_quality, cost |-> record.actual_cost,
     timestamp |-> record.timestamp]

\* _update_optimization_rules
UpdateOptimizationRules(rules, record) ==
    LET key == record.model_key
        old == IF key \in DOMAIN rules THEN rules[key] ELSE <<>>
    IN  (key :> Trim(Append(old, RuleRecord(record)))) @@ rules

\* track_actual_performance applied to an optimizer state; a call is
\* [model_key, request, actual_cost, actual_quality, actual_time], and the
\* clock has moved on before the next call.
TrackApplied(st, call) ==
    LET performance_record ==
            [model_key      |-> call.model_key,
             request        |-> call.request,
             actual_cost    |-> call.actual_cost,
             actual_quality |-> call.actual_quality,
             actual_time    |-> call.actual_time,
             timestamp      |-> st.co_clock]
    IN  [model_profiles     |-> UpdateModelProfile(st.model_profiles, performance_record),
         cost_history       |-> Append(st.cost_history, performance_record),
         quality_history    |-> Append(st.quality_history, performance_record),
         optimization_rules |-> UpdateOptimizationRules(st.optimization_rules,
                                                        performance_record),
         co_clock           |-> st.co_clock + 1]

\* The optimizer after a sequence of track_actual_performance calls
RECURSIVE AfterTracks(_, _)
AfterTracks(st, calls) ==
    IF calls = <<>> THEN st
    ELSE IF Len(calls) = 1 THEN TrackApplied(st, calls[1])
    ELSE LET half  == Len(calls) \div 2
             first == AfterTracks(st, SubSeq(calls, 1, half))
         IN  \* the clock test makes the first half be evaluated before the second
             IF first.co_clock >= st.co_clock
             THEN AfterTracks(first, SubSeq(calls, half + 1, Len(calls)))
             ELSE first

\* The optimizer's fields are those of st
OptimizerIs(st) ==
    /\ model_profiles = st.model_profiles
    /\ cost_history = st.cost_history
    /\ quality_history = st.quality_history
    /\ optimization_rules = st.optimization_rules
    /\ co_clock = st.co_clock

\* track_actual_performance(model_key, request, actual_cost, actual_quality, actual_time)
TrackActualPerformance(call) ==
    /\ co_last.op = "none"
    /\ co_tracked < MaxTracked
    /\ LET st == TrackApplied(OptimizerState, call)
       IN  /\ model_profiles' = st.model_profiles
           /\ cost_history' = st.cost_history
           /\ quality_history' = st.quality_history
           /\ optimization_rules' = st.optimization_rules
           /\ co_clock' = st.co_clock
    /\ co_tracked' = co_tracked + 1
    /\ UNCHANGED co_last
    /\ UNCHANGED <<pipe_vars, rl_vars, bt_vars, tr_vars, in_vars>>

-----------------------------------------------------------------------------
(* PatternExtractor, AdaptiveLearningManager *)

\* The confidence 1.0 of a KnowledgePattern; pattern confidences and feedback
\* performances are kept in units of 1/9600.
ConfidenceOne == 9600

\* A teacher output, as what the extractor reads from it: the kinds of its
\* non-blank lines (_get_structure_signature), the features of its style
\* (question_ratio in hundredths) and the format _detect_format_type finds.
OutputText(name, line_kinds, technical_terms, question_ratio, sentence_length, format_type) ==
    [name |-> name, line_kinds |-> line_kinds, formality |-> 0,
     technical_terms |-> technical_terms, question_ratio |-> question_ratio,
     sentence_length |-> sentence_length, format_type |-> format_type]

\* "What is AI?\nAI is intelligence shown by machines."
QuestionText == OutputText("question", <<"QUESTION", "TEXT">>, 3, 100, 4, <<>>)
\* '{"q": "x", "a": "y"}'
JsonText == OutputText("json", <<"TEXT">>, 0, 0, 4, <<"json">>)
\* "- item one\n- item two"
ListText == OutputText("list", <<"LIST", "LIST">>, 0, 0, 3, <<>>)

\* '_'.join(parts)
RECURSIVE Join(_)
Join(parts) ==
    IF parts = <<>> THEN ""
    ELSE IF Len(parts) = 1 THEN parts[1]
    ELSE parts[1] \o "_" \o Join(Tail(parts))

\* _get_structure_signature: '_'.join(structure[:10])
GetStructureSignature(text) ==
    Join(SubSeq(text.line_kinds, 1, Min(10, Len(text.line_kinds))))

\* _classify_style
ClassifyStyle(features) ==
    IF features.formality > 2 /\ features.technical_terms > 3 THEN "academic"
    ELSE IF features.question_ratio > 20 THEN "conversational"
    ELSE IF features.sentence_length > 15 THEN "detailed"
    ELSE "casual"

\* _detect_format_type: <<>> for None
DetectFormatType(text) == text.format_type

\* The keywords of the model in sorted() order
Vocabulary == <<"ai", "ml">>

\* sorted(keywords), for keywords without repetition
SortedKeywords(keywords) ==
    LET Listed(w) == \E k \in 1..Len(keywords) : keywords[k] = w
    IN  SelectSeq(Vocabulary, Listed)

\* The k-th smallest element of a set of numbers, and the set in ascending order
KthSmallest(S, k) == CHOOSE i \in S : Cardinality({j \in S : j <= i}) = k
Ascending(S) == [k \in 1..Cardinality(S) |-> KthSmallest(S, k)]

\* list.sort(key=..., reverse=True), and sorted(..., reverse=True): stable,
\* highest weight first.
StableSortDescending(seq, Weight(_)) ==
    LET n == Len(seq)
        Rank(i) == 1 + Cardinality({j \in 1..n : Weight(seq[j]) > Weight(seq[i])})
                     + Cardinality({j \in 1..(i - 1) : Weight(seq[j]) = Weight(seq[i])})
    IN  [k \in 1..n |-> seq[CHOOSE i \in 1..n : Rank(i) = k]]

\* A defaultdict(list) filled by one loop over the examples: the groups in the
\* order their keys were first met, each in the order of the examples.
GroupsBy(exs, Key(_), Grouped(_)) ==
    LET positions == {i \in 1..Len(exs) : Grouped(exs[i])}
        firsts    == Ascending({i \in positions :
                                   \A j \in positions :
                                       j < i => Key(exs[j]) # Key(exs[i])})
    IN  [g \in 1..Len(firsts) |->
            LET members == Ascending({j \in positions :
                                         Key(exs[j]) = Key(exs[firsts[g]])})
            IN  [key   |-> Key(exs[firsts[g]]),
                 group |-> [k \in 1..Len(members) |-> exs[members[k]]]]]

\* The patterns one extractor makes of the groups of at least min_size examples
PatternsFrom(groups, min_size, MakePattern(_)) ==
    LET LargeEnough(g) == Len(g.group) >= min_size
        kept           == SelectSeq(groups, LargeEnough)
    IN  [k \in 1..Len(kept) |-> MakePattern(kept[k])]

RECURSIVE AllKeywords(_)
AllKeywords(group) ==
    IF group = <<>> THEN <<>>
    ELSE Head(group).context.keywords \o AllKeywords(Tail(group))

\* _extract_common_keywords: the five most frequent keywords
ExtractCommonKeywords(group) ==
    LET all_keywords == AllKeywords(group)
        firsts == Ascending({i \in 1..Len(all_keywords) :
                                \A j \in 1..(i - 1) : all_keywords[j] # all_keywords[i]})
        keyword_counts ==
            [k \in 1..Len(firsts) |->
                [keyword |-> all_keywords[firsts[k]],
                 count   |-> Cardinality({j \in 1..Len(all_keywords) :
                                             all_keywords[j] = all_keywords[firsts[k]]})]]
        Count(item) == item.count
        ordered == StableSortDescending(keyword_counts, Count)
    IN  [k \in 1..Min(5, Len(ordered)) |-> ordered[k].keyword]

\* [ex.output for ex in group[:n]]
ExemplarOutputsAll(group, n) == [k \in 1..Len(group) |-> group[k].output]

ExemplarOutputs(group, n) == [k \in 1..Min(n, Len(group)) |-> group[k].output]

KnowledgePattern(pattern_id, pattern_type, keywords, template, exemplars, confidence, frequency) ==
    [pattern_id |-> pattern_id, pattern_type |-> pattern_type, keywords |-> keywords,
     template |-> template, examples |-> exemplars, confidence |-> confidence,
     frequency |-> frequency]

\* confidence=min(1.0, len(group) / 10)
StructuralConfidenceUncapped(n) == (n * ConfidenceOne) \div 10

StructuralConfidence(n) == Min(ConfidenceOne, (n * ConfidenceOne) \div 10)

\* confidence=min(1.0, len(group) / 15)
StyleConfidence(n) == Min(ConfidenceOne, (n * ConfidenceOne) \div 15)

\* confidence=min(1.0, len(group) / 8)
ContentConfidence(n) == Min(ConfidenceOne, (n * ConfidenceOne) \div 8)

\* confidence=0.9
FormatConfidence == (9 * ConfidenceOne) \div 10

StructureKey(example) == GetStructureSignature(example.output)
StyleKey(example) == ClassifyStyle(example.output)
TopicKey(example) == Join(SortedKeywords(example.context.keywords))
FormatKey(example) == DetectFormatType(example.output)

EveryExample(example) == TRUE
HasKeywords(example) == example.context.keywords # <<>>
HasFormat(example) == DetectFormatType(example.output) # <<>>

\* _extract_structural_patterns; the md5 digest of the key is kept as the key
ExtractStructuralPatterns(exs) ==
    LET MakePattern(g) ==
            KnowledgePattern("struct_" \o g.key, "structure",
                             ExtractCommonKeywords(g.group),
                             <<"Structure template based on", Len(g.group)>>,
                             ExemplarOutputs(g.group, 3),
                             StructuralConfidence(Len(g.group)), Len(g.group))
    IN  PatternsFrom(GroupsBy(exs, StructureKey, EveryExample), 2, MakePattern)

\* _extract_style_patterns
ExtractStylePatterns(exs) ==
    LET MakePattern(g) ==
            KnowledgePattern("style_" \o g.key, "style",
                             ExtractCommonKeywords(g.group),
                             <<"Style template for", Len(g.group)>>,
                             ExemplarOutputs(g.group, 3),
                             StyleConfidence(Len(g.group)), Len(g.group))
    IN  PatternsFrom(GroupsBy(exs, StyleKey, EveryExample), 3, MakePattern)

\* _extract_content_patterns
ExtractContentPatterns(exs) ==
    LET MakePattern(g) ==
            KnowledgePattern("content_" \o g.key, "content",
                             SortedKeywords(g.group[1].context.keywords),
                             <<"Content template for topic with", Len(g.group)>>,
                             ExemplarOutputs(g.group, 3),
                             ContentConfidence(Len(g.group)), Len(g.group))
    IN  PatternsFrom(GroupsBy(exs, TopicKey, HasKeywords), 2, MakePattern)

\* _extract_format_patterns
ExtractFormatPatterns(exs) ==
    LET MakePattern(g) ==
            KnowledgePattern("format_" \o g.key[1], "format",
                             ExtractCommonKeywords(g.group),
                             <<g.key[1], "format template from", Len(g.group)>>,
                             ExemplarOutputs(g.group, 2),
                             FormatConfidence, Len(g.group))
    IN  PatternsFrom(GroupsBy(exs, FormatKey, HasFormat), 2, MakePattern)

\* self.patterns[pattern.pattern_id] = reference: a known key keeps its place
StorePatternAlone(stored, pattern_id, reference) ==
    <<[pattern_id |-> pattern_id, reference |-> reference]>>

StorePattern(stored, pattern_id, reference) ==
    IF \E k \in 1..Len(stored) : stored[k].pattern_id = pattern_id
    THEN [k \in 1..Len(stored) |->
             IF stored[k].pattern_id = pattern_id
             THEN [stored[k] EXCEPT !.reference = reference]
             ELSE stored[k]]
    ELSE Append(stored, [pattern_id |-> pattern_id, reference |-> reference])

\* for pattern in patterns: self.patterns[pattern.pattern_id] = pattern
RECURSIVE StorePatterns(_, _, _)
StorePatterns(stored, patterns, first_reference) ==
    IF patterns = <<>> THEN stored
    ELSE StorePatterns(StorePattern(stored, Head(patterns).pattern_id, first_reference),
                       Tail(patterns), first_reference + 1)

NoTransferCall ==
    [op |-> "none", examples |-> <<>>, patterns |-> <<>>, feedback |-> <<>>,
     returned |-> <<>>, before |-> <<>>, stored_before |-> <<>>]

\* PatternExtractor.extract_patterns(teacher_examples)
ExtractPatterns(teacher_examples) ==
    /\ pt_ops < MaxTransferOps
    /\ LET patterns == ExtractStructuralPatterns(teacher_examples)
                           \o ExtractStylePatterns(teacher_examples)
                           \o ExtractContentPatterns(teacher_examples)
                           \o ExtractFormatPatterns(teacher_examples)
       IN  /\ pt_heap' = pt_heap \o patterns
           /\ pt_patterns' = StorePatterns(pt_patterns, patterns, Len(pt_heap) + 1)
           /\ pt_last' = [NoTransferCall EXCEPT
                             !.op = "extract_patterns",
                             !.examples = teacher_examples,
                             !.returned = [k \in 1..Len(patterns) |-> Len(pt_heap) + k],
                             !.before = pt_heap,
                             !.stored_before = pt_patterns]
    /\ pt_ops' = pt_ops + 1
    /\ UNCHANGED <<pipe_vars, rl_vars, bt_vars, co_vars, in_vars>>

\* [f for f in performance_feedback if f.get("pattern_id") == pattern.pattern_id]
PatternFeedback(performance_feedback, pattern_id) ==
    LET Matches(f) == f.pattern_id = pattern_id
    IN  SelectSeq(performance_feedback, Matches)

\* np.mean([f["performance"] for f in pattern_feedback])
AvgPerformance(pattern_feedback) ==
    SumSeq([k \in 1..Len(pattern_feedback) |-> pattern_feedback[k].performance])
        \div Len(pattern_feedback)

\* max(0.1, min(1.0, (pattern.confidence + avg_performance) / 2))
AdaptedConfidenceSum(confidence, avg_performance) == confidence + avg_performance

AdaptedConfidenceNoFloor(confidence, avg_performance) ==
    Min(ConfidenceOne, (confidence + avg_performance) \div 2)

AdaptedConfidence(confidence, avg_performance) ==
    Max(ConfidenceOne \div 10, Min(ConfidenceOne, (confidence + avg_performance) \div 2))

\* AdaptiveLearningManager.adapt_patterns(patterns, performance_feedback),
\* `patterns` being references to distinct pattern objects: the objects are
\* changed in place, and the list returned holds the same objects.
AdaptPatterns(patterns, performance_feedback) ==
    /\ pt_ops < MaxAdaptOps
    /\ LET Adapted(reference) ==
               LET pattern == pt_heap[reference]
                   pattern_feedback == PatternFeedback(performance_feedback,
                                                       pattern.pattern_id)
               IN  IF (\E k \in 1..Len(patterns) : patterns[k] = reference)
                          /\ pattern_feedback # <<>>
                   THEN [pattern EXCEPT !.confidence =
                            AdaptedConfidence(@, AvgPerformance(pattern_feedback))]
                   ELSE pattern
           heap == [reference \in 1..Len(pt_heap) |-> Adapted(reference)]
           Confidence(reference) == heap[reference].confidence
       IN  /\ pt_heap' = heap
           /\ pt_last' = [NoTransferCall EXCEPT
                             !.op = "adapt_patterns",
                             !.patterns = patterns,
                             !.feedback = performance_feedback,
                             !.returned = StableSortDescending(patterns, Confidence),
                             !.before = pt_heap,
                             !.stored_before = pt_patterns]
    /\ pt_ops' = pt_ops + 1
    /\ UNCHANGED pt_patterns
    /\ UNCHANGED <<pipe_vars, rl_vars, bt_vars, co_vars, in_vars>>

\* PatternExtractor.__init__
InitTransfer ==
    /\ pt_heap = <<>>
    /\ pt_patterns = <<>>
    /\ pt_last = NoTransferCall
    /\ pt_ops = 0

-----------------------------------------------------------------------------
(* create_distillation_system, DistillationManager, APIIntegrationLayer *)

\* One entry of teacher_models / student_models: whether it has a "config"
\* and whether that has an "api_key".
ModelEntry(name, has_config, has_api_key) ==
    [name |-> name, has_config |-> has_config, has_api_key |-> has_api_key]

ConfigIssue(text, model) == [text |-> text, model |-> model]

\* The issues of one of the two loops over the provider configurations
RECURSIVE ModelIssues(_, _, _)
ModelIssues(models, i, text) ==
    IF i > Len(models) THEN <<>>
    ELSE (IF ~models[i].has_config \/ ~models[i].has_api_key
          THEN <<ConfigIssue(text, <<i - 1>>)>>
          ELSE <<>>)
         \o ModelIssues(models, i + 1, text)

\* ConfigurationManager.validate_config
ValidateConfig(config) ==
    (IF config.teacher_models = <<>>
     THEN <<ConfigIssue("No teacher models configured", <<>>)>> ELSE <<>>)
    \o (IF config.student_models = <<>>
        THEN <<ConfigIssue("No student models configured", <<>>)>> ELSE <<>>)
    \o (IF config.quality_threshold < 0 \/ config.quality_threshold > 1000
        THEN <<ConfigIssue("Quality threshold must be between 0 and 1", <<>>)>>
        ELSE <<>>)
    \o (IF config.max_teacher_examples < 1
        THEN <<ConfigIssue("max_teacher_examples must be at least 1", <<>>)>>
        ELSE <<>>)
    \o (IF config.student_batch_size < 1
        THEN <<ConfigIssue("student_batch_size must be at least 1", <<>>)>>
        ELSE <<>>)
    \o ModelIssues(config.teacher_models, 1, "Teacher model missing API key")
    \o ModelIssues(config.student_models, 1, "Student model missing API key")

\* One loop of _initialize_providers over `models`, from the providers created
\* so far: teacher_config["config"] raises KeyError without a "config", and
\* ProviderConfig(**...) raises TypeError without an api_key.
RECURSIVE CreateProviders(_, _, _)
CreateProviders(models, role, created) ==
    IF created.raised # <<>> \/ models = <<>> THEN created
    ELSE LET model == Head(models)
         IN  IF ~model.has_config
             THEN [created EXCEPT !.raised = <<"KeyError">>]
             ELSE IF ~model.has_api_key
             THEN [created EXCEPT !.raised = <<"TypeError">>]
             ELSE CreateProviders(
                      Tail(models), role,
                      [created EXCEPT !.providers = Append(@, <<role, model.name>>)])

\* DistillationManager._initialize_providers
InitializeProviders(config) ==
    CreateProviders(config.student_models, "student",
        CreateProviders(config.teacher_models, "teacher",
                        [providers |-> <<>>, raised |-> <<>>]))

IsTeacherKey(key) == key[1] = "teacher"
IsStudentKey(key) == key[1] = "student"

\* DistillationManager._initialize_orchestrators: one per teacher / student pair
InitializeOrchestrators(providers) ==
    LET teacher_keys == SelectSeq(providers, IsTeacherKey)
        student_keys == SelectSeq(providers, IsStudentKey)
    IN  [k \in 1..(Len(teacher_keys) * Len(student_keys)) |->
            <<teacher_keys[((k - 1) \div Len(student_keys)) + 1],
              student_keys[((k - 1) % Len(student_keys)) + 1]>>]

NoSystem == [op |-> "none", outcome |-> "none"]

\* What create_distillation_system does once validate_config has returned
\* its issues: `logger.warning(...)` and on to DistillationManager(config).
AfterValidation(config, issues) ==
    LET created == InitializeProviders(config)
    IN  [op            |-> "create_distillation_system",
         config        |-> config,
         issues        |-> issues,
         warned        |-> issues # <<>>,
         outcome       |-> IF created.raised # <<>> THEN "raised" ELSE "returned",
         error         |-> created.raised,
         \* the providers constructed, also those of a manager whose
         \* construction then raised
         providers     |-> created.providers,
         orchestrators |-> IF created.raised # <<>> THEN <<>>
                           ELSE InitializeOrchestrators(created.providers)]

\* create_distillation_system, with the configuration it loaded
CreateDistillationSystem(config) ==
    /\ ds_last = NoSystem
    /\ ds_last' = AfterValidation(config, ValidateConfig(config))
    /\ UNCHANGED <<api_last, request_history, pattern_cache, run_vars>>
    /\ UNCHANGED <<pipe_vars, rl_vars, bt_vars, co_vars, tr_vars>>

DistillationStrategies == {"response_based", "feature_based", "hybrid"}

default_quantity == 10

\* _convert_api_request: DistillationStrategy(value) raises ValueError for a
\* value that is not a member.
ConvertApiRequest(api_request) ==
    LET strategy == IF api_request.strategy = <<>> THEN "response_based"
                    ELSE api_request.strategy[1]
    IN  [raised   |-> IF strategy \in DistillationStrategies THEN <<>>
                      ELSE <<"ValueError">>,
         quantity |-> IF api_request.quantity = <<>> THEN default_quantity
                      ELSE api_request.quantity[1],
         strategy |-> strategy]

NoApiCall == [status |-> "none"]

\* `except Exception as e:` of handle_generation_request
ApiFailureReraised(api_request, e) ==
    [status |-> "raised", request |-> api_request, value |-> <<>>, error |-> <<e>>]

ApiFailure(api_request, e) ==
    [status  |-> "returned",
     request |-> api_request,
     value   |-> <<[error |-> e, status |-> "failed"]>>,
     error   |-> <<>>]

\* _convert_to_api_response
ConvertToApiResponse(r) ==
    [data          |-> r.data,
     quality_score |-> r.quality_score,
     cost          |-> r.cost,
     metadata      |-> r.metadata,
     status        |-> "completed"]

\* f"{data_type}_{hash(tuple(sorted(keywords)))}": the hash of a tuple is kept
\* as the tuple; the API request's defaults are keywords [] and data type "qa".
CacheKey(api_request) == <<api_request.data_type, SortedKeywords(api_request.keywords)>>

\* _get_cached_patterns: self.pattern_cache.get(cache_key), <<>> for None
GetCachedPatterns(cache, api_request) ==
    IF CacheKey(api_request) \in DOMAIN cache THEN <<cache[CacheKey(api_request)]>> ELSE <<>>

\* The `if self.config.cache_patterns:` block before the generation: the keys
\* that _apply_cached_patterns adds to the student's learned_patterns.
AppliedPatterns(config, api_request) ==
    LET cached_patterns == GetCachedPatterns(pattern_cache, api_request)
    IN  IF config.cache_patterns /\ cached_patterns # <<>>
        THEN cached_patterns[1]
        ELSE {}

\* _cache_patterns
CachePatterns(cache, api_request, r) ==
    IF "learned_patterns" \in DOMAIN r.metadata
    THEN (CacheKey(api_request) :> r.metadata.learned_patterns) @@ cache
    ELSE cache

\* handle_generation_request up to the first await of the pipeline.  The
\* conversion may raise; _select_optimal_orchestrator ends in
\* list(self.orchestrators.keys())[0], an IndexError when there is none.
HandleGenerationRequest(api_request) ==
    /\ ds_last.outcome = "returned"
    /\ api_last = NoApiCall
    /\ entry = "none"
    /\ LET generation_request == ConvertApiRequest(api_request)
       IN  IF generation_request.raised # <<>>
           THEN /\ api_last' = ApiFailure(api_request, generation_request.raised[1])
                /\ UNCHANGED pipe_vars
           ELSE IF ds_last.orchestrators = <<>>
           THEN /\ api_last' = ApiFailure(api_request, "IndexError")
                /\ UNCHANGED pipe_vars
           ELSE /\ api_last' = [status |-> "pending", request |-> api_request,
                                value |-> <<>>, error |-> <<>>]
                /\ EnterPipelineWith("generate_dataset", generation_request.quantity,
                                     AppliedPatterns(ds_last.config, api_request))
    /\ UNCHANGED <<ds_last, request_history, pattern_cache, run_vars>>
    /\ UNCHANGED <<rl_vars, bt_vars, co_vars, tr_vars>>

\* The pipeline returned its response: it is converted, recorded and returned.
ApiReturn ==
    /\ api_last.status = "pending"
    /\ pc = "done"
    /\ LET api_response == ConvertToApiResponse(response[1])
       IN  /\ request_history' = Append(request_history,
                                        [request  |-> api_last.request,
                                         response |-> api_response])
           /\ api_last' = [api_last EXCEPT !.status = "returned",
                                           !.value = <<api_response>>]
    /\ pattern_cache' =
           IF ds_last.config.cache_patterns
           THEN CachePatterns(pattern_cache, api_last.request, response[1])
           ELSE pattern_cache
    /\ UNCHANGED <<ds_last, run_vars>>
    /\ UNCHANGED <<pipe_vars, rl_vars, bt_vars, co_vars, tr_vars>>

\* The pipeline raised: the exception is caught and reported.
ApiFail ==
    /\ api_last.status = "pending"
    /\ pc = "raised"
    /\ api_last' = ApiFailure(api_last.request, "Exception")
    /\ UNCHANGED <<ds_last, request_history, pattern_cache, run_vars>>
    /\ UNCHANGED <<pipe_vars, rl_vars, bt_vars, co_vars, tr_vars>>

InitIntegration ==
    /\ ds_last = NoSystem
    /\ api_last = NoApiCall
    /\ request_history = <<>>
    /\ pattern_cache = <<>>
    /\ run_now = 1
    /\ run_parked = <<>>
    /\ cache_owner = <<>>
    /\ run_starts = <<>>

-----------------------------------------------------------------------------
(* Specifications *)

InitPipeline ==
    /\ entry = "none"
    /\ pc = "idle"
    /\ quantity = 0
    /\ seed_i = 0
    /\ examples = <<>>
    /\ examples_cache = <<>>
    /\ learned_patterns = {}
    /\ learning_result = [patterns_learned |-> 0, examples_processed |-> 0, confidence |-> 0]
    /\ batch_start = 0
    /\ inflight = 0
    /\ batch_responses = <<>>
    /\ results = <<>>
    /\ sample_indices = <<>>
    /\ validations = <<>>
    /\ response = <<>>
    /\ seed_returned = <<>>
    /\ anomalies = 0
    /\ teacher_calls = <<>>
    /\ teacher_outcomes = <<>>
    /\ student_calls = <<>>
    /\ student_outcomes = <<>>
    /\ validation_calls = <<>>
    /\ max_inflight = 0
    /\ stage_log = <<>>
    /\ sample_ratio = sample_ratio_percent
    /\ validation_returned = <<>>
    /\ validation_outcomes = <<>>

InitRateLimiter ==
    /\ request_times = <<>>
    /\ clock = 0
    /\ rl_pc = [c \in Callers |-> "idle"]
    /\ rl_wake = [c \in Callers |-> 0]
    /\ rl_returned = [c \in Callers |-> 0]
    /\ rl_suspended = [c \in Callers |-> 0]
    /\ rl_started = 0
    /\ rl_time_between = FALSE
    /\ rl_overlap = FALSE

\* ProviderConfig.rate_limit_per_minute
rate_limit_per_minute == 60

\* BudgetTracker.__init__
Epoch == [day |-> 1, hour |-> 0]

InitBudgetTracker ==
    /\ total_spending = 0
    /\ daily_spending = <<>>
    /\ hourly_spending = <<>>
    /\ bt_now = Epoch
    /\ bt_ops = 0
    /\ bt_last = NoCall
    /\ bt_prev = NoCall

InitOptimizer ==
    /\ OptimizerIs(FreshOptimizer)
    /\ co_last = NoOptimization
    /\ co_tracked = 0

Init ==
    /\ InitPipeline
    /\ InitRateLimiter
    /\ requests_per_minute = rate_limit_per_minute
    /\ InitBudgetTracker
    /\ InitTransfer
    /\ InitIntegration
    /\ InitOptimizer

\* One run of generate_dataset.
Next ==
    \/ \E q \in 0..MaxQuantity : GenerateDataset(q)
    \/ TeacherIssue
    \/ \E o \in GenerateOutcomes : TeacherSettle(o)
    \/ SeedReturn
    \/ LearnFromTeacher
    \/ BulkIssue
    \/ \E o \in GenerateOutcomes : StudentSettle(o)
    \/ BulkGather
    \/ BulkReturn
    \/ ValidateBatch
    \/ \E o \in ValidationOutcomes : ValidationSettle(o)
    \/ ValidateReturn

Spec == Init /\ [][Next]_vars

\* generate_seed_data called on its own, for the quantities of the seed-count table.
SeedQuantities == {0, 1, 9, 10, 11, 500, 10000}

NextSeed ==
    \/ \E q \in SeedQuantities : GenerateSeedData(q)
    \/ TeacherIssue
    \/ \E o \in GenerateOutcomes : TeacherSettle(o)
    \/ SeedReturn

SpecSeed == Init /\ [][NextSeed]_vars

\* Callers sharing one RateLimiter.
InitRL ==
    /\ InitPipeline
    /\ InitRateLimiter
    /\ requests_per_minute \in 1..MaxLimit
    /\ InitBudgetTracker
    /\ InitTransfer
    /\ InitIntegration
    /\ InitOptimizer

NextRL ==
    \/ \E c \in Callers : WaitIfNeeded(c)
    \/ \E c \in Callers : WakeUp(c)
    \/ Tick

SpecRL == InitRL /\ [][NextRL]_vars

\* validate_batch called on its own, for item lists of every length up to
\* MaxItems and the sample ratios below (percent).
SampleRatios == {1, 10, 25, 34, 50, 100}

NextValidate ==
    \/ \E n \in 0..MaxItems, ratio \in SampleRatios : CallValidateBatch(n, ratio)
    \/ ValidateBatch
    \/ \E o \in ValidationOutcomes : ValidationSettle(o)
    \/ ValidateBatchReturn

SpecValidate == Init /\ [][NextValidate]_vars

\* The configurations create_distillation_system may have loaded
ModelLists(role) ==
    {<<>>,
     <<ModelEntry(role \o "1", TRUE, TRUE)>>,
     <<ModelEntry(role \o "1", TRUE, FALSE)>>,
     <<ModelEntry(role \o "1", FALSE, FALSE)>>,
     <<ModelEntry(role \o "1", TRUE, TRUE), ModelEntry(role \o "2", TRUE, FALSE)>>}

Configs ==
    [teacher_models : ModelLists("t"), student_models : ModelLists("s"),
     quality_threshold : {-100, 800, 1500},
     max_teacher_examples : {50}, student_batch_size : {20}, cache_patterns : {TRUE}]

ApiRequests ==
    [quantity : {<<>>, <<0>>, <<1>>, <<3>>, <<MaxQuantity>>},
     strategy : {<<>>, <<"hybrid">>, <<"bogus">>},
     keywords : {<<"ml", "ai">>}, data_type : {"qa"}]

\* A system is created, then one request is handled by it.
NextApi ==
    \/ \E config \in Configs : CreateDistillationSystem(config)
    \/ \E api_request \in ApiRequests : HandleGenerationRequest(api_request)
    \/ TeacherIssue
    \/ \E o \in GenerateOutcomes : TeacherSettle(o)
    \/ SeedReturn
    \/ LearnFromTeacher
    \/ BulkIssue
    \/ \E o \in GenerateOutcomes : StudentSettle(o)
    \/ BulkGather
    \/ BulkReturn
    \/ ValidateBatch
    \/ \E o \in ValidationOutcomes : ValidationSettle(o)
    \/ ValidateReturn
    \/ ApiReturn
    \/ ApiFail

SpecApi == Init /\ [][NextApi]_vars

\* A teacher example as generate_seed_data builds it from a provider reply
SeedExample(i, text, finish_reason, keywords) ==
    [context |-> [keywords |-> keywords, iteration |-> i]]
        @@ TeacherExample(i, ProviderReply(text, finish_reason, teacher_max_tokens))

\* The example lists given to extract_patterns: so many question texts, then
\* so many json texts, then so many list texts, of one request.
ExampleList(n_question, n_json, n_list, keywords) ==
    [i \in 1..(n_question + n_json + n_list) |->
        IF i <= n_question THEN SeedExample(i - 1, QuestionText, "stop", keywords)
        ELSE IF i <= n_question + n_json
        THEN SeedExample(i - 1, JsonText, "length", keywords)
        ELSE SeedExample(i - 1, ListText, "stop", keywords)]

ExampleLists ==
    {ExampleList(n[1], n[2], n[3], <<"ml", "ai">>) :
        n \in {<<0, 0, 0>>, <<1, 0, 0>>, <<2, 0, 0>>, <<3, 2, 0>>, <<10, 2, 0>>,
               <<MaxExamples, 2, 10>>}}
    \cup {ExampleList(2, 2, 0, <<>>)}

Performances == {0, ConfidenceOne \div 2, ConfidenceOne}

\* The feedback lists given to adapt_patterns: none, one or two observations
\* of one pattern identifier (that of the first stored pattern, or one that
\* no pattern has), or one observation of every stored pattern.
FeedbackLists ==
    LET targets == {pt_patterns[k].pattern_id : k \in 1..Min(1, Len(pt_patterns))}
                       \cup {"unknown"}
    IN  {<<>>}
        \cup {<<[pattern_id |-> t, performance |-> p]>> : t \in targets, p \in Performances}
        \cup {<<[pattern_id |-> t, performance |-> p],
                [pattern_id |-> t, performance |-> ConfidenceOne]>> :
                  t \in targets, p \in Performances \ {ConfidenceOne}}
        \cup {[k \in 1..Len(pt_patterns) |->
                  [pattern_id |-> pt_patterns[k].pattern_id, performance |-> p]] :
                  p \in Performances}

\* list(extractor.patterns.values())
StoredPatterns == [k \in 1..Len(pt_patterns) |-> pt_patterns[k].reference]

NextTransfer ==
    \/ \E teacher_examples \in ExampleLists : ExtractPatterns(teacher_examples)
    \/ \E performance_feedback \in FeedbackLists :
           AdaptPatterns(StoredPatterns, performance_feedback)

SpecTransfer == Init /\ [][NextTransfer]_vars

\* One BudgetTracker, called with the budgets and amounts below.
Budgets ==
    {[total_budget |-> 500, daily_budget |-> <<>>,    hourly_budget |-> <<>>],
     [total_budget |-> 500, daily_budget |-> <<200>>, hourly_budget |-> <<100>>],
     [total_budget |-> 500, daily_budget |-> <<0>>,   hourly_budget |-> <<>>],
     [total_budget |-> 500, daily_budget |-> <<>>,    hourly_budget |-> <<0>>],
     [total_budget |-> 0,   daily_budget |-> <<>>,    hourly_budget |-> <<>>]}

SpendAmounts == {100, 250}
AdditionalCosts == {0, 150}

NextBudget ==
    \/ \E a \in SpendAmounts, ts \in {<<>>, <<Epoch>>} : TrackSpending(a, ts)
    \/ \E b \in Budgets, a \in AdditionalCosts : CheckBudgetConstraints(b, a)
    \/ BudgetTick

SpecBudget == Init /\ [][NextBudget]_vars

\* The profiles that get registered: the two hosted models of the test
\* fixtures and a local model that costs nothing.
ProfilePool ==
    {[provider |-> "openai", model_name |-> "gpt-4",
      input_cost_per_token |-> 30, output_cost_per_token |-> 60,
      quality_rating |-> 950, speed_rating |-> 30, reliability_rating |-> 990,
      last_updated |-> 0],
     [provider |-> "openai", model_name |-> "gpt-3.5-turbo",
      input_cost_per_token |-> 1, output_cost_per_token |-> 2,
      quality_rating |-> 780, speed_rating |-> 60, reliability_rating |-> 950,
      last_updated |-> 0],
     [provider |-> "local", model_name |-> "llama",
      input_cost_per_token |-> 0, output_cost_per_token |-> 0,
      quality_rating |-> 720, speed_rating |-> 10, reliability_rating |-> 900,
      last_updated |-> 0]}

DataTypes == {"qa", "classification", "generation", "code", "translation", "summary"}

Requests ==
    [data_type : DataTypes, quantity : {0, 5, 20}, n_keywords : {2}, context_len : {0},
     quality_threshold : {800}]
    \cup
    [data_type : DataTypes, quantity : {20}, n_keywords : {2}, context_len : {0},
     quality_threshold : {900}]
    \cup
    [data_type : {"qa"}, quantity : {20}, n_keywords : {2}, context_len : {0},
     quality_threshold : {860}]

SelectionBudgets ==
    [total_budget : {0, 20000, 10000000},
     cost_per_item_limit : {<<>>, <<0>>, <<5000>>},
     quality_cost_ratio_min : {1}]
    \cup
    [total_budget : {10000000},
     cost_per_item_limit : {<<>>, <<5000>>},
     quality_cost_ratio_min : {100}]

\* A call of track_actual_performance
TrackCall(model_key, actual_cost, actual_quality) ==
    [model_key |-> model_key, request |-> NoRequest, actual_cost |-> actual_cost,
     actual_quality |-> actual_quality, actual_time |-> 1000]

\* Histories the optimizer starts from: none; eleven outcomes of poor quality;
\* eleven outcomes one of which cost far more than the others.
HistoryScenarios ==
    {<<>>,
     [k \in 1..11 |-> TrackCall("openai_gpt-3.5-turbo", 600, 500)],
     [k \in 1..11 |-> TrackCall("openai_gpt-4", IF k = 11 THEN 500000 ELSE 18000, 900)]}

InitOptimize ==
    /\ InitPipeline
    /\ InitRateLimiter
    /\ requests_per_minute = rate_limit_per_minute
    /\ InitBudgetTracker
    /\ InitTransfer
    /\ InitIntegration
    /\ \E calls \in HistoryScenarios : OptimizerIs(AfterTracks(FreshOptimizer, calls))
    /\ co_last = NoOptimization
    /\ co_tracked = 0

NextOptimize ==
    \/ \E p \in ProfilePool : RegisterModelProfile(p)
    \/ \E r \in Requests, b \in SelectionBudgets, st \in Strategies :
           OptimizeModelSelection(r, b, st)
    \/ \E r \in Requests, b \in SelectionBudgets : OptimizeTeacherStudentAllocation(r, b)

SpecOptimize == InitOptimize /\ [][NextOptimize]_vars

\* An optimizer that has already tracked 100 outcomes of one provider, and the
\* calls of track_actual_performance that follow.
TrackedBefore == [k \in 1..100 |-> TrackCall("openai_gpt-4", 18000 + k, 900)]

InitHistory ==
    /\ InitPipeline
    /\ InitRateLimiter
    /\ requests_per_minute = rate_limit_per_minute
    /\ InitBudgetTracker
    /\ InitTransfer
    /\ InitIntegration
    /\ \E calls \in {<<>>, TrackedBefore} : OptimizerIs(AfterTracks(FreshOptimizer, calls))
    /\ co_last = NoOptimization
    /\ co_tracked = 0

TrackCalls ==
    {TrackCall(key, cost, quality) :
        key \in {"openai_gpt-4", "local_llama"}, cost \in {0, 20000}, quality \in {400, 1000}}

NextHistory ==
    \/ \E p \in ProfilePool : RegisterModelProfile(p)
    \/ \E call \in TrackCalls : TrackActualPerformance(call)

SpecHistory == InitHistory /\ [][NextHistory]_vars

-----------------------------------------------------------------------------
(* Properties of generate_dataset: termination in a response *)

Returned == response # <<>>

\* [num, den] is the score 0.5.
IsDefaultScore(avg) == avg.den > 0 /\ 100 * avg.num = DefaultScore * 100 * avg.den

\* C1: every run of generate_dataset ends by returning a GenerationResponse
\* (it never ends in an exception), and when the run has no teacher example
\* and no student item the response's quality score is the validator's
\* default, 0.5.
C1_AlwaysReturnsResponse ==
    /\ pc # "raised"
    /\ (Returned /\ examples = <<>> /\ results = <<>>)
           => IsDefaultScore(response[1].quality_score)

-----------------------------------------------------------------------------
(* Properties of the RateLimiter *)

\* Recorded timestamps younger than the window at time `now`.
RecentRequests(now) ==
    Cardinality({k \in 1..Len(request_times) : request_times[k] > now - Window})

\* C2: whatever the interleaving of the callers sharing the limiter, the
\* recorded timestamps younger than 60 seconds never number more than the
\* limit.
C2_WindowHoldsAtMostLimit == RecentRequests(clock) <= requests_per_minute

RECURSIVE SumOver(_, _)
SumOver(f, S) ==
    IF S = {} THEN 0 ELSE LET c == CHOOSE x \in S : TRUE IN f[c] + SumOver(f, S \ {c})

TotalReturned == SumOver(rl_returned, Callers)
TotalSuspended == SumOver(rl_suspended, Callers)

\* The calls so far came one after another, with no time passing between them.
BackToBack == ~rl_overlap /\ ~rl_time_between

\* C8: from an empty window, limit+1 calls made one after another with no
\* time passing between them cause exactly one suspension: the first `limit`
\* calls return without suspending, the next one is suspended until the
\* oldest timestamp is 60 seconds old, and then records its timestamp.
C8_OneSuspensionAfterLimit ==
    BackToBack =>
        /\ rl_started <= requests_per_minute
               => TotalSuspended = 0 /\ TotalReturned = rl_started
        /\ rl_started = requests_per_minute + 1 =>
               /\ TotalSuspended = 1
               /\ \A c \in Callers : rl_pc[c] = "sleeping"
                      => rl_wake[c] = request_times[1] + Window
               /\ TotalReturned = rl_started
                      => /\ clock >= Window
                         /\ request_times[Len(request_times)] >= Window

C8_Witness ==
    /\ BackToBack
    /\ requests_per_minute >= 2
    /\ rl_started = requests_per_minute + 1
    /\ TotalReturned = rl_started
    /\ TotalSuspended = 1

-----------------------------------------------------------------------------
(* Properties of the pipeline's stages and calls *)

Stages == <<"Seeding", "Learning", "BulkGenerating", "Validating", "Done">>

\* The stage a position of generate_dataset belongs to.
StageOf(p) ==
    CASE p \in {"seed_loop", "seed_wait"}     -> "Seeding"
      [] p = "learning"                       -> "Learning"
      [] p \in {"bulk_loop", "bulk_wait"}     -> "BulkGenerating"
      [] p \in {"validating", "validate_wait", "raised"} -> "Validating"
      [] p = "done"                           -> "Done"
      [] OTHER                                -> "None"

TeacherCallsSettled ==
    /\ Len(teacher_outcomes) = Len(teacher_calls)
    /\ Len(teacher_calls) = SeedQuantity(quantity)

StudentCallsSettled ==
    /\ inflight = 0
    /\ Len(student_outcomes) = Len(student_calls)
    /\ Len(student_calls) = quantity

\* C3: the stages of a run are entered in the order Seeding, Learning,
\* BulkGenerating, Validating, Done, none twice; the run is always in the
\* stage entered last; a student call is issued only after every seed call has
\* settled and learning has finished; a validation call is issued only after
\* every student call has settled; and a run that returns has entered all five.
C3_StagesInOrder ==
    entry = "generate_dataset" =>
        /\ stage_log = SubSeq(Stages, 1, Len(stage_log))
        /\ stage_log[Len(stage_log)] = StageOf(pc)
        /\ student_calls # <<>> =>
               /\ TeacherCallsSettled
               /\ learned_patterns = PatternCategories
               /\ learning_result.examples_processed = Len(examples)
               /\ StageOf(pc) \notin {"Seeding", "Learning"}
        /\ validation_calls # <<>> =>
               /\ StudentCallsSettled
               /\ StageOf(pc) \in {"Validating", "Done"}
        /\ Returned => stage_log = Stages

C3_Witness ==
    /\ Returned
    /\ quantity > batch_size
    /\ Len(teacher_calls) = 2
    /\ Len(validation_calls) = 2

\* C4: the calls in flight are always calls of the current batch that have not
\* settled, never more than 20; between two batches, and after the last, no
\* call is in flight.
C4_BatchesNeverOverlap ==
    /\ inflight <= batch_size
    /\ max_inflight <= batch_size
    /\ pc = "bulk_wait" =>
           inflight + Len(batch_responses) = BatchEnd(batch_start, quantity) - batch_start
    /\ pc # "bulk_wait" => inflight = 0

C4_Witness ==
    /\ pc = "bulk_wait"
    /\ batch_start = batch_size
    /\ inflight > 0
    /\ max_inflight = batch_size

\* The indices of the calls that did not raise, in call order.
RECURSIVE SuccessfulCalls(_, _)
SuccessfulCalls(outcomes, first) ==
    IF outcomes = <<>> THEN <<>>
    ELSE (IF Head(outcomes) = "error" THEN <<>> ELSE <<first>>)
         \o SuccessfulCalls(Tail(outcomes), first + 1)

BulkReturned == pc \in {"validating", "validate_wait", "done", "raised"}

\* C5: generate_bulk_data issues each index at most once and in order; when it
\* returns it has issued exactly the indices 0..quantity-1, every call has
\* settled, and the returned list holds the reply of each call that did not
\* raise, in index order, and nothing else.
C5_OneItemPerSuccessfulCall ==
    entry = "generate_dataset" =>
        /\ student_calls = Range(0, Len(student_calls))
        /\ Len(student_calls) <= quantity
        /\ BulkReturned =>
               /\ student_calls = Range(0, quantity)
               /\ Len(student_outcomes) = quantity
               /\ [k \in 1..Len(results) |-> results[k].content]
                      = SuccessfulCalls(student_outcomes, 0)
               /\ Len(results) <= quantity

C5_Witness ==
    /\ BulkReturned
    /\ quantity > batch_size
    /\ student_outcomes[2] = "error"
    /\ Len(results) = quantity - 1

\* C6: generate_seed_data never ends in an exception; a call that raised is
\* followed by the remaining calls; and the list it returns holds one example
\* per call that did not raise, in call order (possibly none).
C6_SeedFailuresSkipped ==
    entry = "generate_seed_data" =>
        /\ pc # "raised"
        /\ seed_returned # <<>> =>
               /\ teacher_calls = Range(0, SeedQuantity(quantity))
               /\ Len(teacher_outcomes) = Len(teacher_calls)
               /\ [k \in 1..Len(seed_returned[1]) |-> seed_returned[1][k].iteration]
                      = SuccessfulCalls(teacher_outcomes, 0)

C6_Witness ==
    /\ seed_returned # <<>>
    /\ quantity = 500
    /\ teacher_outcomes[1] = "error"
    /\ Len(seed_returned[1]) = 49

\* C7: generate_seed_data never issues more than min(floor(quantity/10), 50)
\* calls and has issued exactly that many when it returns: 0, 0, 1, 1, 50 and
\* 50 calls for the quantities 1, 9, 10, 11, 500 and 10000.
C7_SeedCount ==
    entry = "generate_seed_data" =>
        /\ Len(teacher_calls) <= Min(quantity \div 10, 50)
        /\ seed_returned # <<>> =>
               /\ Len(teacher_calls) = Min(quantity \div 10, 50)
               /\ quantity \in {1, 9} => Len(teacher_calls) = 0
               /\ quantity \in {10, 11} => Len(teacher_calls) = 1
               /\ quantity \in {500, 10000} => Len(teacher_calls) = 50

C7_Witness ==
    /\ seed_returned # <<>>
    /\ quantity = 10000
    /\ Len(teacher_calls) = 50

\* C9: a returned response has a quality score in [0,1] and a cost that is
\* not negative.
C9_ScoreAndCostInRange ==
    Returned =>
        /\ response[1].quality_score.den > 0
        /\ 0 <= response[1].quality_score.num
        /\ response[1].quality_score.num <= 100 * response[1].quality_score.den
        /\ response[1].cost >= 0

\* A reply above 1.0 was clamped and a reply that does not parse fell back.
C9_Witness ==
    /\ Returned
    /\ validations = <<100, DefaultScore>>
    /\ anomalies > 0

\* C10: a returned response holds at most quantity + min(floor(quantity/10), 50)
\* items: the teacher's items first, one per example, then the student's.
C10_DataLengthAndOrder ==
    Returned =>
        LET data == response[1].data
        IN  /\ Len(data) <= quantity + Min(quantity \div 10, 50)
            /\ Len(data) = Len(examples) + Len(results)
            /\ \A k \in 1..Len(data) :
                   data[k].source = IF k <= Len(examples) THEN "teacher" ELSE "student"
            /\ \A k \in 1..Len(examples) : data[k].content = examples[k].output
            /\ \A k \in 1..Len(results) :
                   data[Len(examples) + k].content = results[k].content

C10_Witness ==
    /\ Returned
    /\ quantity > batch_size
    /\ Len(response[1].data) = quantity + Min(quantity \div 10, 50)

-----------------------------------------------------------------------------
(* Properties of the response's metadata *)

\* The number of items of `data` that come from `source`.
CountSource(data, source) ==
    Cardinality({k \in 1..Len(data) : data[k].source = source})

\* C11: in a returned response metadata.teacher_examples is the number of
\* teacher items of data and metadata.student_generated the number of student
\* items; a request of quantity 10 in which no call raises gives
\* teacher_examples = 1 and at most 10 student items.
C11_MetadataCountsItems ==
    Returned =>
        /\ response[1].metadata.teacher_examples
               = CountSource(response[1].data, "teacher")
        /\ response[1].metadata.student_generated
               = CountSource(response[1].data, "student")
        /\ (/\ quantity = 10
            /\ \A k \in 1..Len(teacher_outcomes) : teacher_outcomes[k] # "error"
            /\ \A k \in 1..Len(student_outcomes) : student_outcomes[k] # "error")
               => /\ response[1].metadata.teacher_examples = 1
                  /\ CountSource(response[1].data, "student") <= 10

\* A run in which a student call raised, so that fewer items than requested
\* are counted.
C11_Witness ==
    /\ Returned
    /\ quantity = 10
    /\ response[1].metadata.teacher_examples = 1
    /\ response[1].metadata.student_generated = 9

-----------------------------------------------------------------------------
(* Properties of the BudgetTracker *)

\* A ceiling that is configured (not None) and that the spend before the call
\* plus the call's additional cost exceeds.
CeilingExceeded(call) ==
    \/ call.before.total_spending + call.amount > call.budget.total_budget
    \/ /\ call.budget.daily_budget # <<>>
       /\ DefaultRead(call.before.daily_spending, DateKey(call.now)) + call.amount
              > call.budget.daily_budget[1]
    \/ /\ call.budget.hourly_budget # <<>>
       /\ DefaultRead(call.before.hourly_spending, HourKey(call.now)) + call.amount
              > call.budget.hourly_budget[1]

\* C12: check_budget_constraints never returns within_budget = true when the
\* spend plus the additional cost exceeds the total ceiling or a configured
\* daily or hourly ceiling (any ceiling value >= 0), and within_budget is true
\* exactly when the returned list of violated ceilings is empty.
C12_NeverWithinBudgetWhenExceeded ==
    (bt_last.op = "check" /\ ~bt_last.result.raised) =>
        /\ bt_last.result.within_budget => ~CeilingExceeded(bt_last)
        /\ bt_last.result.within_budget <=> (bt_last.result.issues = <<>>)

\* C13: check_budget_constraints leaves the all-time total, the per-day map and
\* the per-hour map (key sets and values) as they were before the call.
C13_CheckLeavesTrackerUnchanged ==
    bt_last.op = "check" => TrackerState = bt_last.before

\* C14: two calls of check_budget_constraints in a row with the same budget and
\* additional cost, at the same clock day and hour, return identical results.
C14_CheckIsIdempotent ==
    (/\ bt_prev.op = "check"
     /\ bt_last.op = "check"
     /\ bt_last.budget = bt_prev.budget
     /\ bt_last.amount = bt_prev.amount
     /\ bt_last.now = bt_prev.now)
        => bt_last.result = bt_prev.result

\* Two such calls that report a violated daily ceiling, the first of which
\* found no entry for today in the per-day map.
C14_Witness ==
    /\ bt_prev.op = "check"
    /\ bt_last.op = "check"
    /\ bt_last.budget = bt_prev.budget
    /\ bt_last.amount = bt_prev.amount
    /\ bt_last.now = bt_prev.now
    /\ bt_prev.before.total_spending > 0
    /\ DateKey(bt_prev.now) \notin DOMAIN bt_prev.before.daily_spending
    /\ ~bt_last.result.raised
    /\ bt_last.result.issues # <<>>
    /\ bt_last.result.within_budget = FALSE

-----------------------------------------------------------------------------
(* Properties of the IntelligentCostOptimizer *)

AllocationCalled == co_last.op = "optimize_teacher_student_allocation"
SelectionCalled == co_last.op = "optimize_model_selection"

\* The last call returned an allocation (not the "error" dict).
AllocationReturned ==
    /\ AllocationCalled
    /\ co_last.outcome = "returned"
    /\ "total_cost" \in DOMAIN co_last.value[1]

\* The last call returned a recommendation.
RecommendationReturned == SelectionCalled /\ co_last.outcome = "returned"

\* C15: any allocation returned by optimize_teacher_student_allocation has
\* total_cost, the sum of the teacher cost and the student cost, not exceeding
\* budget.total_budget.
C15_AllocationWithinBudget ==
    AllocationReturned =>
        /\ co_last.value[1].total_cost
               = co_last.value[1].teacher_cost + co_last.value[1].student_cost
        /\ co_last.value[1].total_cost <= co_last.budget.total_budget

\* An allocation was returned although some ratio's total cost is over budget.
C15_Witness ==
    /\ AllocationReturned
    /\ co_last.value[1].total_cost > 0
    /\ \E i \in TeacherRatios :
           AllocationAt(i, co_last.request).total_cost > co_last.budget.total_budget

\* C16: optimize_teacher_student_allocation ends with a viable allocation or
\* with the NoViableAllocation outcome for every set of registered profiles,
\* the empty set included, and never fails in any other way.
C16_AllocationNeverCrashes ==
    AllocationCalled =>
        /\ co_last.outcome = "returned"
        /\ \/ AllocationReturned
           \/ co_last.value[1] = NoViableAllocation

\* C17: the recommended model's estimated cost, and the cost of every listed
\* alternative, does not exceed budget.total_budget, under every strategy.
C17_RecommendationWithinBudget ==
    RecommendationReturned =>
        /\ co_last.value[1].estimated_cost <= co_last.budget.total_budget
        /\ \A k \in 1..Len(co_last.value[1].alternatives) :
               co_last.value[1].alternatives[k].cost <= co_last.budget.total_budget

\* A recommendation with an alternative, made while a registered profile's
\* estimate is over the total budget.
C17_Witness ==
    /\ RecommendationReturned
    /\ Len(co_last.value[1].alternatives) >= 1
    /\ \E k \in 1..Len(model_profiles) :
           EstimateGenerationCost(co_last.request, model_profiles[k].profile).estimated_cost
               > co_last.budget.total_budget

\* C18: when the budget sets a per-item cost ceiling, the recommended
\* provider's estimated cost divided by the request's quantity does not exceed
\* the ceiling, for every data type.
C18_PerItemCeilingRespected ==
    (/\ RecommendationReturned
     /\ co_last.budget.cost_per_item_limit # <<>>
     /\ co_last.request.quantity > 0)
        => co_last.value[1].estimated_cost
               <= co_last.budget.cost_per_item_limit[1] * co_last.request.quantity

\* The profiles that survive the budget filtering of the last call
Survivors == Candidates(co_last.request, co_last.budget, co_last.strategy)

\* C19: optimize_model_selection fails with NoViableProvider exactly when no
\* registered profile survives budget filtering; otherwise it returns a
\* recommendation whose model is a surviving profile of the highest score.
C19_NoViableProviderIffNoSurvivor ==
    SelectionCalled =>
        /\ (co_last.outcome = "raised" /\ co_last.error = "ValueError")
               <=> (Survivors = <<>>)
        /\ Survivors # <<>> =>
               /\ co_last.outcome = "returned"
               /\ \E k \in 1..Len(Survivors) :
                      /\ Survivors[k].model_key = co_last.value[1].recommended_model
                      /\ \A j \in 1..Len(Survivors) :
                             Survivors[j].score <= Survivors[k].score

\* The outcomes tracked for a key, oldest first
TrackedFor(key) ==
    LET IsKey(record) == record.model_key = key
        records == SelectSeq(cost_history, IsKey)
    IN  [k \in 1..Len(records) |-> RuleRecord(records[k])]

\* C20: the rolling history kept for each provider key holds at most 100
\* records, and they are that provider's most recent outcomes in the order
\* they were tracked.
C20_RollingHistoryBounded ==
    /\ \A k \in 1..Len(cost_history) : cost_history[k].model_key \in DOMAIN optimization_rules
    /\ \A key \in DOMAIN optimization_rules :
           LET all  == TrackedFor(key)
               kept == optimization_rules[key]
           IN  /\ Len(kept) <= 100
               /\ Len(kept) = Min(100, Len(all))
               /\ kept = SubSeq(all, Len(all) - Len(kept) + 1, Len(all))

\* A key with more than 100 tracked outcomes, beside a key with fewer.
C20_Witness ==
    /\ \E key \in DOMAIN optimization_rules :
           /\ Len(TrackedFor(key)) > 100
           /\ Len(optimization_rules[key]) = 100
    /\ \E key \in DOMAIN optimization_rules : Len(optimization_rules[key]) = 1

-----------------------------------------------------------------------------
(* Properties of validate_batch *)

\* validate_batch, called on its own, has computed its sample / has returned.
SampleChosen == entry = "validate_batch" /\ pc \in {"validate_wait", "validated"}
Validated == entry = "validate_batch" /\ pc = "validated"

\* max(1, floor(n * ratio)) for the list and the ratio of the call
ExpectedSample == Max(1, (Len(results) * sample_ratio) \div 100)

\* C23: for a list of n >= 1 items and 0 < ratio <= 1, validate_batch issues
\* exactly s = max(1, floor(n * ratio)) teacher calls, on s distinct indices
\* within 0..n-1 evenly spaced from index 0, and reports sample_size = s.
C23_SampleSizeAndIndices ==
    (SampleChosen /\ Len(results) >= 1) =>
        /\ Len(sample_indices) = ExpectedSample
        /\ validation_calls = sample_indices
        /\ sample_indices[1] = 0
        /\ \A k \in 1..Len(sample_indices) :
               /\ sample_indices[k] \in 0..(Len(results) - 1)
               /\ k > 1 => /\ sample_indices[k] - sample_indices[k - 1] >= 1
                           /\ sample_indices[k] - sample_indices[k - 1]
                                  = sample_indices[2] - sample_indices[1]
        /\ \A j, k \in 1..Len(sample_indices) :
               j # k => sample_indices[j] # sample_indices[k]
        /\ Validated => validation_returned[1].sample_size = ExpectedSample

\* A call that sampled three items out of seven, two apart, and has returned.
C23_Witness ==
    /\ Validated
    /\ Len(results) = 7
    /\ sample_indices = <<0, 2, 4>>
    /\ validation_returned[1].sample_size = 3

\* The reply is a number as the validator reads it: after stripping blanks,
\* digits with at most one dot and at least one digit.
ParsesAsNumber(outcome) ==
    LET text == Strip(outcome.content)
    IN  /\ ~outcome.raised
        /\ \E k \in 1..Len(text) : text[k] \in Digits
        /\ \A k \in 1..Len(text) : text[k] \in Digits \cup {"."}
        /\ Cardinality({k \in 1..Len(text) : text[k] = "."}) <= 1

\* C24: a validation call that fails, or whose reply cannot be parsed as a
\* number, contributes 0.5 and does not abort the batch; every per-sample
\* score lies in [0,1]; the reported average is the mean of the per-sample
\* scores, 0.5 when every call fails.
C24_FailedValidationCountsHalf ==
    /\ SampleChosen =>
           /\ Len(validations) = Len(validation_outcomes)
           /\ \A k \in 1..Len(validations) :
                  /\ validations[k] \in 0..100
                  /\ ~ParsesAsNumber(validation_outcomes[k]) => validations[k] = 50
    /\ Validated =>
           /\ Len(validation_outcomes) = Len(sample_indices)
           /\ validation_returned[1].validations = validations
           /\ validation_returned[1].average_quality.den = Len(validations)
           /\ validation_returned[1].average_quality.num = SumSeq(validations)
           /\ (\A k \in 1..Len(validations) : validation_outcomes[k].raised)
                  => validation_returned[1].average_quality.num
                         = 50 * validation_returned[1].average_quality.den

\* A batch that returned although one call raised and one reply was no
\* number, beside a reply that was one.
C24_Witness ==
    /\ Validated
    /\ \E k \in 1..Len(validations) : validation_outcomes[k].raised
    /\ \E k \in 1..Len(validations) :
           /\ ~validation_outcomes[k].raised
           /\ ~ParsesAsNumber(validation_outcomes[k])
    /\ \E k \in 1..Len(validations) :
           /\ ParsesAsNumber(validation_outcomes[k])
           /\ validations[k] = 85
    /\ validation_returned[1].average_quality.num = SumSeq(validations)

-----------------------------------------------------------------------------
(* Properties of the teacher / student allocation scan *)

\* The allocation of i twentieths of the items to the teacher, for the request
\* and budget of the last call, is within the budget and reaches the request's
\* quality threshold (expected quality in 1/20000: 20 twentieths of thousandths).
ViableRatio(i) ==
    LET allocation == AllocationAt(i, co_last.request)
    IN  /\ allocation.total_cost <= co_last.budget.total_budget
        /\ allocation.expected_quality >= 20 * co_last.request.quality_threshold

\* The ten ratios 5%, 10%, ..., 50% in twentieths
TenRatios == 1..10

\* C27: optimize_teacher_student_allocation evaluates exactly the ten teacher
\* ratios 5%, 10%, ..., 50%; when 50% is the only ratio that meets both the
\* budget and the quality threshold, an allocation with teacher ratio 50% is
\* returned.
C27_HalfRatioEvaluated ==
    (/\ AllocationCalled
     /\ co_last.outcome = "returned"
     /\ ViableRatio(10)
     /\ \A i \in TenRatios \ {10} : ~ViableRatio(i))
        => /\ AllocationReturned
           /\ co_last.value[1].teacher_ratio = 10

\* (expectedQuality / totalCost) x (1 - |teacherRatio - 0.2|) of the
\* allocation of i twentieths, as the quotient of two naturals.
PreferenceScore(i) ==
    LET allocation == AllocationAt(i, co_last.request)
        distance   == IF i >= 4 THEN i - 4 ELSE 4 - i
    IN  [num |-> allocation.expected_quality * (20 - distance),
         den |-> allocation.total_cost]

\* a >= b for two such quotients of positive numerator (x / 0 is infinite)
QuotientAtLeast(a, b) ==
    IF a.den = 0 THEN TRUE
    ELSE IF b.den = 0 THEN FALSE
    ELSE ~FracGreater(b.num, b.den, a.num, a.den)

C29_AllocationMeetsThreshold ==
    AllocationReturned =>
        LET allocation == co_last.value[1]
            i          == allocation.teacher_ratio
        IN  /\ allocation.expected_quality
                   = i * ProfileOf(allocation.teacher_model).quality_rating
                       + (20 - i) * ProfileOf(allocation.student_model).quality_rating
            /\ allocation.expected_quality >= 20 * co_last.request.quality_threshold
            /\ allocation.teacher_quantity + allocation.student_quantity
                   = co_last.request.quantity

\* An allocation was returned although a cheaper split within the budget
\* falls below the threshold.
C29_Witness ==
    /\ AllocationReturned
    /\ co_last.request.quantity = 20
    /\ co_last.value[1].teacher_quantity > 0
    /\ \E i \in TeacherRatios :
           /\ AllocationAt(i, co_last.request).total_cost <= co_last.budget.total_budget
           /\ AllocationAt(i, co_last.request).expected_quality
                  < 20 * co_last.request.quality_threshold
-----------------------------------------------------------------------------
(* Properties of the profile update of track_actual_performance *)

\* The step is a call of track_actual_performance; its record is the last of
\* cost_history afterwards.
TrackStep == co_tracked' = co_tracked + 1
TrackedRecord == cost_history'[Len(cost_history')]

\* y is x rounded down to the thousandth, x given as num / den thousandths
RoundedDown(y, num, den) == den * y <= num /\ num < den * (y + 1)

\* One call moves the ratings of the profile of its key, and of no other.
ProfileMoved ==
    /\ Len(model_profiles') = Len(model_profiles)
    /\ \A k \in 1..Len(model_profiles) :
           LET old == model_profiles[k].profile
               new == model_profiles'[k].profile
           IN  /\ model_profiles'[k].key = model_profiles[k].key
               /\ IF model_profiles[k].key = TrackedRecord.model_key
                  THEN /\ RoundedDown(new.quality_rating,
                                      9 * old.quality_rating
                                          + TrackedRecord.actual_quality, 10)
                       /\ RoundedDown(new.reliability_rating,
                                      95 * old.reliability_rating + 5 * 1000, 100)
                       /\ new.reliability_rating >= old.reliability_rating
                  ELSE new = old
    /\ ~KeyRegistered(TrackedRecord.model_key) => model_profiles' = model_profiles

\* C30: each track_actual_performance call for a registered provider sets
\* quality_rating to 0.9 x old + 0.1 x observed and reliability_rating to
\* 0.95 x old + 0.05; with observed quality and initial ratings in [0,1],
\* quality_rating stays in [0,1] and reliability_rating never decreases and
\* never exceeds 1; a call for an unregistered key changes no profile.
C30_ProfileMovingAverage ==
    /\ [](\A k \in 1..Len(model_profiles) :
             /\ model_profiles[k].profile.quality_rating \in 0..1000
             /\ model_profiles[k].profile.reliability_rating \in 0..1000)
    /\ [][TrackStep => ProfileMoved]_vars

\* The llama profile after one outcome of quality 1.0 and one of quality 0.4,
\* beside an untouched gpt-4 profile.
C30_Witness ==
    /\ co_tracked = 2
    /\ \E k \in 1..Len(model_profiles) :
           /\ model_profiles[k].key = "local_llama"
           /\ model_profiles[k].profile.quality_rating = 713
           /\ model_profiles[k].profile.reliability_rating = 909
    /\ \E k \in 1..Len(model_profiles) :
           /\ model_profiles[k].key = "openai_gpt-4"
           /\ model_profiles[k].profile.quality_rating = 950
-----------------------------------------------------------------------------
(* Properties of the integration layer *)

SystemCalled == ds_last.op = "create_distillation_system"

\* C25: a configuration with validation issues (no teacher models, no student
\* models, a model without an API key, a quality threshold outside [0,1]) is
\* surfaced to the caller as a configuration failure before any provider is
\* created and before any generation work begins.
C25_ConfigIssuesSurfaced ==
    (SystemCalled /\ ds_last.issues # <<>>) =>
        /\ ds_last.outcome = "raised"
        /\ ds_last.providers = <<>>
        /\ api_last = NoApiCall
        /\ teacher_calls = <<>>

\* C26: handle_generation_request never raises: it returns either a response
\* of status "completed" with data and quality_score and no error field, or a
\* structured failure of status "failed" with an error message when the
\* request conversion or the pipeline raised.
C26_RequestNeverRaises ==
    /\ api_last.status \in {"none", "pending", "returned"}
    /\ api_last.status = "returned" =>
           LET api_response == api_last.value[1]
           IN  \/ /\ api_response.status = "completed"
                  /\ {"data", "quality_score"} \subseteq DOMAIN api_response
                  /\ "error" \notin DOMAIN api_response
                  /\ pc = "done"
                  /\ api_response.data = response[1].data
               \/ /\ api_response.status = "failed"
                  /\ "error" \in DOMAIN api_response
                  /\ \/ pc = "raised"
                     \/ ConvertApiRequest(api_last.request).raised # <<>>
                     \/ ds_last.orchestrators = <<>>

\* The pipeline raised after the student's calls were made, and the request
\* was answered with a structured failure.
C26_Witness ==
    /\ api_last.status = "returned"
    /\ api_last.value[1].status = "failed"
    /\ pc = "raised"
    /\ student_calls # <<>>
-----------------------------------------------------------------------------
(* Properties of pattern confidences *)

Extracted == pt_last.op = "extract_patterns"
Adapted == pt_last.op = "adapt_patterns"

\* The structural patterns the last extract_patterns call returned
StructuralReturned ==
    {pt_heap[pt_last.returned[k]] : k \in 1..Len(pt_last.returned)}
        \cap {pattern \in {pt_heap[r] : r \in 1..Len(pt_heap)} :
                 pattern.pattern_type = "structure"}

\* The number of the call's examples whose structure gives the identifier
StructureGroupSize(pattern_id) ==
    Cardinality({i \in 1..Len(pt_last.examples) :
                    "struct_" \o GetStructureSignature(pt_last.examples[i].output)
                        = pattern_id})

\* C21: the confidence of a structural pattern is min(1, groupSize / 10): it
\* never decreases as the group size grows, never exceeds 1.0, and group
\* sizes 2, 10 and 20 give confidences 0.2, 1.0 and 1.0.
C21_StructuralConfidence ==
    Extracted =>
        /\ \A pattern \in StructuralReturned :
               LET n == StructureGroupSize(pattern.pattern_id)
               IN  /\ n >= 2
                   /\ (n < 10 => 10 * pattern.confidence = n * ConfidenceOne)
                   /\ (n >= 10 => pattern.confidence = ConfidenceOne)
                   /\ pattern.confidence <= ConfidenceOne
                   /\ (n = 2 => 5 * pattern.confidence = ConfidenceOne)
                   /\ (n \in {10, 20} => pattern.confidence = ConfidenceOne)
        /\ \A p, q \in StructuralReturned :
               StructureGroupSize(p.pattern_id) <= StructureGroupSize(q.pattern_id)
                   => p.confidence <= q.confidence

\* One call returned structural patterns for groups of 2, 10 and 20 examples.
C21_Witness ==
    /\ Extracted
    /\ \A n \in {2, 10, 20} :
           \E pattern \in StructuralReturned :
               /\ StructureGroupSize(pattern.pattern_id) = n
               /\ pattern.frequency = n

\* C22: in every reachable state every TeacherExample.confidence and every
\* KnowledgePattern.confidence lies in [0,1], also after any sequence of
\* extract_patterns calls and of adapt_patterns calls whose feedback
\* performances lie in [0,1].
C22_ConfidencesInUnitInterval ==
    /\ \A r \in 1..Len(pt_heap) : pt_heap[r].confidence \in 0..ConfidenceOne
    /\ \A k \in 1..Len(pt_last.examples) : pt_last.examples[k].confidence \in 0..100
    /\ \A k \in 1..Len(examples) : examples[k].confidence \in 0..100

\* A pattern of confidence 1.0 was adapted by feedback of performance 1.0,
\* after an extraction from examples of a provider.
C22_Witness ==
    /\ Adapted
    /\ \E k \in 1..Len(pt_last.patterns) :
           LET r == pt_last.patterns[k]
           IN  /\ pt_last.before[r].confidence = ConfidenceOne
               /\ pt_heap[r].confidence = ConfidenceOne
               /\ \E f \in 1..Len(pt_last.feedback) :
                      /\ pt_last.feedback[f].pattern_id = pt_heap[r].pattern_id
                      /\ pt_last.feedback[f].performance = ConfidenceOne
    /\ \E r \in 1..Len(pt_heap) : pt_heap[r].confidence < ConfidenceOne
    /\ \A k \in 1..Len(pt_last.examples) : pt_last.examples[k].confidence \in {70, 90}
-----------------------------------------------------------------------------
(* The optimizer's read-only operations and its registered profiles *)

\* A call of estimate_generation_cost(request, model_key) from outside
EstimateGenerationCostCall(request, model_key) ==
    /\ co_last.op = "none"
    /\ LET call == [NoOptimization EXCEPT !.op = "estimate_generation_cost",
                                          !.request = request]
       IN  co_last' =
               IF ~KeyRegistered(model_key)
               THEN [call EXCEPT !.outcome = "raised", !.error = "ValueError"]
               ELSE [call EXCEPT !.outcome = "returned",
                                 !.value = <<EstimateGenerationCost(request,
                                                                    ProfileOf(model_key))>>]
    /\ UNCHANGED <<model_profiles, cost_history, quality_history, optimization_rules,
                   co_clock, co_tracked>>
    /\ UNCHANGED <<pipe_vars, rl_vars, bt_vars, tr_vars, in_vars>>

\* An optimizer that registers profiles, tracks outcomes and is then asked
\* for one estimate, selection or allocation.
InitProfiles ==
    /\ InitPipeline
    /\ InitRateLimiter
    /\ requests_per_minute = rate_limit_per_minute
    /\ InitBudgetTracker
    /\ InitTransfer
    /\ InitIntegration
    /\ OptimizerIs(FreshOptimizer)
    /\ co_last = NoOptimization
    /\ co_tracked = 0

ProfileRequests == {r \in Requests : r.data_type = "qa" /\ r.quantity = 20}
ProfileBudgets ==
    {b \in SelectionBudgets : b.total_budget = 10000000 /\ b.cost_per_item_limit = <<>>}
ProfileTrackCalls == {TrackCall("openai_gpt-4", 20000, 400), TrackCall("local_llama", 0, 1000)}

NextProfiles ==
    \/ \E p \in ProfilePool : RegisterModelProfile(p)
    \/ \E call \in ProfileTrackCalls : TrackActualPerformance(call)
    \/ \E r \in ProfileRequests, p \in ProfilePool :
           EstimateGenerationCostCall(r, ProfileKey(p))
    \/ \E r \in ProfileRequests, b \in ProfileBudgets, st \in Strategies :
           OptimizeModelSelection(r, b, st)
    \/ \E r \in ProfileRequests, b \in ProfileBudgets :
           OptimizeTeacherStudentAllocation(r, b)

SpecProfiles == InitProfiles /\ [][NextProfiles]_vars

\* The step is a call of one of the three read-only operations.
ReadOnlyStep ==
    /\ co_last.op = "none"
    /\ co_last'.op \in {"estimate_generation_cost", "optimize_model_selection",
                        "optimize_teacher_student_allocation"}

\* The step is a call of register_model_profile: the dict gains a key at its
\* end, or the value of one key is replaced by the registered profile.
RegisterStep ==
    /\ co_last' = co_last
    /\ co_tracked' = co_tracked
    /\ \E p \in ProfilePool :
           \/ /\ ~KeyRegistered(ProfileKey(p))
              /\ model_profiles' =
                     Append(model_profiles, [key |-> ProfileKey(p), profile |-> p])
           \/ /\ Len(model_profiles') = Len(model_profiles)
              /\ \A k \in 1..Len(model_profiles) :
                     model_profiles'[k] =
                         IF model_profiles[k].key = ProfileKey(p)
                         THEN [key |-> ProfileKey(p), profile |-> p]
                         ELSE model_profiles[k]

\* The step leaves the registered keys alone and changes the profile of no
\* key but the given one.
OnlyProfileChanged(model_key) ==
    /\ Len(model_profiles') = Len(model_profiles)
    /\ \A k \in 1..Len(model_profiles) :
           /\ model_profiles'[k].key = model_profiles[k].key
           /\ model_profiles[k].key # model_key => model_profiles'[k] = model_profiles[k]

\* C31: estimate_generation_cost, optimize_model_selection and
\* optimize_teacher_student_allocation leave every registered profile and the
\* set of registered keys unchanged; a step that is not a registration
\* changes a profile only if it is a track_actual_performance call, and then
\* only the profile of the tracked key.
C31_ReadOnlyOperations ==
    [][/\ ReadOnlyStep => model_profiles' = model_profiles
       /\ model_profiles' # model_profiles => RegisterStep \/ TrackStep
       /\ TrackStep => OnlyProfileChanged(TrackedRecord.model_key)]_vars

\* An allocation was returned by an optimizer one of whose
\* profiles had been changed by a tracked outcome.
ProfileTracked ==
    /\ co_tracked > 0
    /\ \E k \in 1..Len(model_profiles), p \in ProfilePool :
           /\ model_profiles[k].key = ProfileKey(p)
           /\ model_profiles[k].profile # p

C31_Witness ==
    /\ ProfileTracked
    /\ Len(model_profiles) = Cardinality(ProfilePool)
    /\ co_last.op = "optimize_teacher_student_allocation"
    /\ co_last.outcome = "returned"
-----------------------------------------------------------------------------
(* Properties of adapt_patterns *)

\* The feedback of the last adapt_patterns call for the pattern object r
FeedbackFor(r) == PatternFeedback(pt_last.feedback, pt_heap[r].pattern_id)
FeedbackSum(r) == SumSeq([k \in 1..Len(FeedbackFor(r)) |-> FeedbackFor(r)[k].performance])

\* The new confidence of r is exactly the average of its old confidence and
\* the mean of its feedback.
IsAverage(r) ==
    2 * Len(FeedbackFor(r)) * pt_heap[r].confidence
        = Len(FeedbackFor(r)) * pt_last.before[r].confidence + FeedbackSum(r)

\* That average is below 0.1.
AverageBelowTenth(r) ==
    10 * (Len(FeedbackFor(r)) * pt_last.before[r].confidence + FeedbackSum(r))
        < 2 * Len(FeedbackFor(r)) * ConfidenceOne

\* The list returned holds the objects passed in, highest confidence first.
ReturnedByConfidence ==
    /\ Len(pt_last.returned) = Len(pt_last.patterns)
    /\ \A k \in 1..Len(pt_last.patterns) :
           \E j \in 1..Len(pt_last.returned) : pt_last.returned[j] = pt_last.patterns[k]
    /\ \A j \in 1..Len(pt_last.returned) - 1 :
           pt_heap[pt_last.returned[j]].confidence
               >= pt_heap[pt_last.returned[j + 1]].confidence

\* C32 as stated: after adapt_patterns each pattern that has feedback has the
\* average of its old confidence and the observed performance as its new
\* confidence, a pattern with no feedback keeps its confidence, and the list
\* returned is ordered by confidence, highest first.
C32_AverageOfOldAndObserved ==
    Adapted =>
        /\ \A k \in 1..Len(pt_last.patterns) :
               LET r == pt_last.patterns[k]
               IN  IF FeedbackFor(r) # <<>>
                   THEN IsAverage(r)
                   ELSE pt_heap[r].confidence = pt_last.before[r].confidence
        /\ ReturnedByConfidence

\* C32 amended: the new confidence is that average unless the average is
\* below 0.1, in which case it is 0.1.
C32_AverageFlooredAtTenth ==
    Adapted =>
        /\ \A k \in 1..Len(pt_last.patterns) :
               LET r == pt_last.patterns[k]
               IN  IF FeedbackFor(r) = <<>>
                   THEN pt_heap[r].confidence = pt_last.before[r].confidence
                   ELSE IF AverageBelowTenth(r)
                   THEN 10 * pt_heap[r].confidence = ConfidenceOne
                   ELSE IsAverage(r)
        /\ ReturnedByConfidence

\* An adapt_patterns call that put one pattern at the floor, moved another to
\* its average, and returned at least two patterns.
C32_Witness ==
    /\ Adapted
    /\ Len(pt_last.returned) >= 2
    /\ \E k \in 1..Len(pt_last.patterns) :
           /\ FeedbackFor(pt_last.patterns[k]) # <<>>
           /\ AverageBelowTenth(pt_last.patterns[k])
    /\ \E k \in 1..Len(pt_last.patterns) :
           /\ FeedbackFor(pt_last.patterns[k]) # <<>>
           /\ ~AverageBelowTenth(pt_last.patterns[k])
           /\ pt_heap[pt_last.patterns[k]].confidence
                  # pt_last.before[pt_last.patterns[k]].confidence
-----------------------------------------------------------------------------
(* Properties of extract_patterns *)

\* The patterns the last extract_patterns call returned
PatternsReturned == [k \in 1..Len(pt_last.returned) |-> pt_heap[pt_last.returned[k]]]

\* The identifier of the pattern of the given type an example supports, if any
SupportedPattern(example, pattern_type) ==
    IF pattern_type = "structure"
    THEN <<"struct_" \o GetStructureSignature(example.output)>>
    ELSE IF pattern_type = "style"
    THEN <<"style_" \o ClassifyStyle(example.output)>>
    ELSE IF pattern_type = "content"
    THEN IF example.context.keywords = <<>> THEN <<>>
         ELSE <<"content_" \o Join(SortedKeywords(example.context.keywords))>>
    ELSE IF DetectFormatType(example.output) = <<>> THEN <<>>
         ELSE <<"format_" \o DetectFormatType(example.output)[1]>>

\* The number of the call's examples that support the pattern
SupportingGroupSize(pattern) ==
    Cardinality({i \in 1..Len(pt_last.examples) :
                    SupportedPattern(pt_last.examples[i], pattern.pattern_type)
                        = <<pattern.pattern_id>>})

\* C33: every pattern returned by extract_patterns has frequency equal to the
\* size of its supporting group, at least 2 (at least 3 for a style pattern),
\* and at most 3 exemplar outputs; fewer than 2 examples yield no pattern.
C33_FrequencyIsGroupSize ==
    Extracted =>
        /\ \A k \in 1..Len(PatternsReturned) :
               LET pattern == PatternsReturned[k]
               IN  /\ pattern.frequency = SupportingGroupSize(pattern)
                   /\ pattern.frequency >= 2
                   /\ pattern.pattern_type = "style" => pattern.frequency >= 3
                   /\ Len(pattern.examples) <= 3
        /\ Len(pt_last.examples) < 2 => PatternsReturned = <<>>

\* An extraction that returned a structural pattern of a group of more than
\* three examples, one of a group of two, a style and a format pattern, from
\* examples one of which found too few of its style for a style pattern.
C33_Witness ==
    /\ Extracted
    /\ \E k \in 1..Len(PatternsReturned) :
           /\ PatternsReturned[k].pattern_type = "structure"
           /\ PatternsReturned[k].frequency > 3
           /\ Len(PatternsReturned[k].examples) = 3
    /\ \E k \in 1..Len(PatternsReturned) :
           /\ PatternsReturned[k].pattern_type = "structure"
           /\ PatternsReturned[k].frequency = 2
    /\ \E k \in 1..Len(PatternsReturned) : PatternsReturned[k].pattern_type = "style"
    /\ \E k \in 1..Len(PatternsReturned) : PatternsReturned[k].pattern_type = "format"
    /\ \E i \in 1..Len(pt_last.examples) :
           \A k \in 1..Len(PatternsReturned) :
               SupportedPattern(pt_last.examples[i], "style")
                   # <<PatternsReturned[k].pattern_id>>

\* The identifiers stored in the extractor's pattern map
StoredIds == {pt_patterns[k].pattern_id : k \in 1..Len(pt_patterns)}

\* C34: over any sequence of extract_patterns and adapt_patterns calls no
\* identifier stored in the extractor's pattern map is ever removed.
C34_StoredIdsOnlyGrow == [][StoredIds \subseteq StoredIds']_vars

\* An extraction stored a pattern anew under an identifier already stored and
\* left in the map an identifier that it did not return.
C34_Witness ==
    /\ Extracted
    /\ \E k \in 1..Len(PatternsReturned), j \in 1..Len(pt_last.stored_before) :
           PatternsReturned[k].pattern_id = pt_last.stored_before[j].pattern_id
    /\ \E id \in StoredIds :
           \A k \in 1..Len(PatternsReturned) : PatternsReturned[k].pattern_id # id
-----------------------------------------------------------------------------
(* Properties of the BudgetTracker's three totals *)

\* The hour keys of one day
HoursOf(day) == {h \in DOMAIN hourly_spending : h[1] = day}

\* C39: after any sequence of track_spending and check_budget_constraints
\* calls the all-time total equals the sum of the per-day totals and the sum
\* of the per-hour totals, and each day's total equals the sum of the totals
\* of that day's hours.
C39_TotalsAgree ==
    /\ total_spending = SumOver(daily_spending, DOMAIN daily_spending)
    /\ total_spending = SumOver(hourly_spending, DOMAIN hourly_spending)
    /\ \A day \in DOMAIN daily_spending :
           daily_spending[day] = SumOver(hourly_spending, HoursOf(day))

\* Spending was tracked in two hours of one day, and a later check left an
\* empty entry for another day.
C39_Witness ==
    /\ bt_last.op = "check"
    /\ \E day \in DOMAIN daily_spending :
           /\ Cardinality({h \in HoursOf(day) : hourly_spending[h] > 0}) >= 2
           /\ daily_spending[day] > 0
    /\ \E day \in DOMAIN daily_spending : daily_spending[day] = 0
-----------------------------------------------------------------------------
(* Termination of wait_if_needed *)

\* Time keeps passing after the horizon MaxClock for as long as a caller is
\* still asleep.
TickToWake ==
    /\ clock + TickSeconds > MaxClock
    /\ \E c \in Callers : rl_pc[c] = "sleeping" /\ rl_wake[c] > clock
    /\ clock' = clock + TickSeconds
    /\ rl_time_between' = (rl_time_between \/ \A c \in Callers : rl_pc[c] # "sleeping")
    /\ UNCHANGED <<requests_per_minute, request_times, rl_pc, rl_wake, rl_returned,
                   rl_suspended, rl_started, rl_overlap>>
    /\ UNCHANGED <<pipe_vars, bt_vars, co_vars, tr_vars, in_vars>>

NextRLFair == NextRL \/ TickToWake

\* The clock never stops, and the event loop resumes every coroutine whose
\* sleep is over; nothing obliges a caller to call.
SpecRLFair ==
    /\ InitRL
    /\ [][NextRLFair]_vars
    /\ WF_vars(Tick \/ TickToWake)
    /\ \A c \in Callers : WF_vars(WakeUp(c))

\* The calls of caller c that have begun
CallsBegun(c) == rl_returned[c] + (IF rl_pc[c] = "sleeping" THEN 1 ELSE 0)

\* A return of caller c appends the current time to what is kept of the list.
RecordsOneTimestamp(c) ==
    /\ rl_returned'[c] = rl_returned[c] + 1
    /\ \E i \in 0..Len(request_times) :
           request_times' =
               Append(SubSeq(request_times, i + 1, Len(request_times)), clock)

\* C40: with a limit of at least 1 and any number of concurrent callers, as
\* long as time advances every call of wait_if_needed records exactly one
\* timestamp and returns, no caller is suspended more than once per call, and
\* none stays suspended forever.
C40_EveryCallReturns ==
    /\ [](\A c \in Callers : rl_suspended[c] <= CallsBegun(c))
    /\ [][/\ \A c \in Callers :
                 rl_returned'[c] # rl_returned[c] => RecordsOneTimestamp(c)
          /\ rl_returned' = rl_returned
                 => Len(request_times') <= Len(request_times)]_vars
    /\ \A c \in Callers : (rl_pc[c] = "sleeping") ~> (rl_pc[c] = "idle")

\* Both callers were suspended in calls that overlapped, one of them at the
\* horizon, and all calls have returned.
C40_Witness ==
    /\ rl_overlap
    /\ clock > MaxClock
    /\ \A c \in Callers : rl_pc[c] = "idle" /\ rl_suspended[c] >= 1
    /\ TotalReturned = MaxCalls
-----------------------------------------------------------------------------
(* DynamicPricingManager (cost_optimizer.py); costs are millionths of a      *)
(* currency unit, the discount is in thousandths.                            *)

\* self.peak_hours, self.off_peak_discount
peak_hours == <<9, 10, 11, 14, 15, 16>>
off_peak_discount == 100

IsPeakHour(hour) == \E k \in 1..Len(peak_hours) : peak_hours[k] = hour

\* request.get('estimated_cost', 0); the key is <<>> when absent
BaseCost(request) ==
    IF request.estimated_cost = <<>> THEN 0 ELSE request.estimated_cost[1]

\* _get_next_off_peak_hour: the first of the next 23 hours that is not a peak
\* hour, as the days from today and the hour of the day; midnight of the next
\* day if there is none.
NextOffPeakHour(hour) ==
    LET offsets == {k \in 1..23 : ~IsPeakHour((hour + k) % 24)}
    IN  IF offsets = {}
        THEN [days |-> 1, hour |-> 0]
        ELSE LET first == CHOOSE k \in offsets : \A j \in offsets : k <= j
             IN  [days |-> (hour + first) \div 24, hour |-> (hour + first) % 24]

\* "delay" if savings > base_cost * 0.05 else "immediate"
TimingRecommendationAtLeast(savings, base_cost) ==
    IF savings * 100 >= base_cost * 5 THEN "delay" ELSE "immediate"

TimingRecommendation(savings, base_cost) ==
    IF savings * 100 > base_cost * 5 THEN "delay" ELSE "immediate"

\* The dict returned by get_optimal_timing at the given hour of the day
OptimalTiming(request, hour) ==
    LET base_cost == BaseCost(request)
    IN  IF IsPeakHour(hour)
        THEN LET off_peak_cost == (base_cost * (1000 - off_peak_discount)) \div 1000
                 savings       == base_cost - off_peak_cost
             IN  [immediate_execution |-> [cost |-> base_cost, timing |-> "peak_hours"],
                  delayed_execution   |-> [cost |-> off_peak_cost,
                                           savings |-> savings,
                                           next_optimal_time |-> NextOffPeakHour(hour),
                                           timing |-> "off_peak"],
                  recommendation      |-> TimingRecommendation(savings, base_cost)]
        ELSE [immediate_execution |-> [cost |-> base_cost, timing |-> "off_peak"],
              recommendation      |-> "immediate"]

\* get_optimal_timing(request, budget), called when datetime.now().hour is
\* current_hour
GetOptimalTiming(request, budget, current_hour) ==
    /\ co_last.op = "none"
    /\ co_last' = [current_hour |-> current_hour, timing_request |-> request]
                      @@ [NoOptimization EXCEPT
                             !.op = "get_optimal_timing",
                             !.budget = budget,
                             !.outcome = "returned",
                             !.value = <<OptimalTiming(request, current_hour)>>]
    /\ UNCHANGED <<model_profiles, cost_history, quality_history, optimization_rules,
                   co_clock, co_tracked>>
    /\ UNCHANGED <<pipe_vars, rl_vars, bt_vars, tr_vars, in_vars>>

\* Requests with no estimate, a zero estimate and positive estimates, at
\* every hour of the day.
TimingRequests == [estimated_cost : {<<>>, <<0>>, <<1000>>, <<20000>>, <<500000>>}]

NextTiming ==
    \E request \in TimingRequests, budget \in ProfileBudgets, hour \in 0..23 :
        GetOptimalTiming(request, budget, hour)

SpecTiming == InitProfiles /\ [][NextTiming]_vars

TimingCalled == co_last.op = "get_optimal_timing"

\* C36: at an off-peak hour get_optimal_timing recommends immediate
\* execution; at a peak hour (9, 10, 11, 14, 15, 16) it projects an off-peak
\* cost 10% lower and recommends delay exactly when the projected saving
\* exceeds 5% of the immediate cost, so that a zero estimate is recommended
\* for immediate execution.
C36_TimingRecommendation ==
    TimingCalled =>
        LET timing == co_last.value[1]
            cost   == timing.immediate_execution.cost
        IN  /\ cost = BaseCost(co_last.timing_request)
            /\ IF co_last.current_hour \in {9, 10, 11, 14, 15, 16}
               THEN /\ 10 * timing.delayed_execution.cost = 9 * cost
                    /\ timing.delayed_execution.savings
                           = cost - timing.delayed_execution.cost
                    /\ timing.recommendation = "delay"
                           <=> 20 * timing.delayed_execution.savings > cost
                    /\ timing.recommendation \in {"delay", "immediate"}
                    /\ cost = 0 => timing.recommendation = "immediate"
               ELSE /\ timing.recommendation = "immediate"
                    /\ "delayed_execution" \notin DOMAIN timing

\* A request with no estimate at 16 o'clock, the last peak hour, for which
\* the next off-peak hour is 17 o'clock of the same day.
C36_Witness ==
    /\ TimingCalled
    /\ co_last.current_hour = 16
    /\ co_last.timing_request.estimated_cost = <<>>
    /\ co_last.value[1].recommendation = "immediate"
    /\ co_last.value[1].delayed_execution.next_optimal_time = [days |-> 0, hour |-> 17]
-----------------------------------------------------------------------------
(* Properties of the pattern cache of the DistillationManager *)

\* The request was handled to completion by a manager that caches patterns.
RequestCompleted ==
    /\ api_last.status = "returned"
    /\ api_last.value[1].status = "completed"
    /\ ds_last.config.cache_patterns

\* The same request with its keywords in the opposite order
KeywordsReversed(api_request) ==
    [api_request EXCEPT !.keywords =
        [k \in 1..Len(@) |-> api_request.keywords[Len(api_request.keywords) + 1 - k]]]

\* C37: with pattern caching enabled, once a request has completed the
\* pattern cache holds an entry under the key of its data type and keywords,
\* which a request with the same keywords in another order finds.
C37_CompletedRequestIsCached ==
    RequestCompleted =>
        /\ CacheKey(api_last.request) \in DOMAIN pattern_cache
        /\ GetCachedPatterns(pattern_cache, KeywordsReversed(api_last.request)) # <<>>

-----------------------------------------------------------------------------
(* Two generate_dataset runs on one orchestrator *)

\* The local variables of the generate_dataset coroutine the pipeline
\* variables hold, and of the coroutines it awaits.
RunLocals ==
    [run             |-> run_now,
     entry           |-> entry,
     pc              |-> pc,
     quantity        |-> quantity,
     seed_i          |-> seed_i,
     examples        |-> examples,
     learning_result |-> learning_result,
     batch_start     |-> batch_start,
     inflight        |-> inflight,
     batch_responses |-> batch_responses,
     results         |-> results,
     sample_indices  |-> sample_indices,
     validations     |-> validations,
     response        |-> response,
     seed_returned   |-> seed_returned,
     stage_log       |-> stage_log]

\* The run is suspended in an await on a remote call, or it is over.
RunSuspended(p) == p \in {"seed_wait", "bulk_wait", "validate_wait"}
RunFinished(p) == p \in {"done", "raised"}

\* The run that created each entry of examples_cache: the entries not yet
\* attributed were appended by the run that has been running since.
OwnersNow ==
    cache_owner \o [k \in 1..(Len(examples_cache) - Len(cache_owner)) |-> run_now]

OwnerOf(k) == OwnersNow[k]

\* A second generate_dataset(request) is called on the orchestrator while the
\* first run is suspended or after it has ended; it runs up to its first await.
\* Teacher, student and validator, and so examples_cache and learned_patterns,
\* are the orchestrator's and are shared by the two runs.
NextRequest(q) ==
    /\ entry = "generate_dataset"
    /\ run_parked = <<>>
    /\ RunSuspended(pc) \/ RunFinished(pc)
    /\ run_parked' = <<RunLocals>>
    /\ run_now' = run_now + 1
    /\ cache_owner' = OwnersNow
    /\ run_starts' = Append(run_starts,
           [run       |-> run_now + 1,
            cache     |-> OwnersNow,
            completed |-> IF RunFinished(pc) THEN {run_now} ELSE {}])
    /\ quantity' = q
    /\ pc' = "seed_loop"
    /\ seed_i' = 0
    /\ examples' = <<>>
    /\ stage_log' = <<"Seeding">>
    /\ learning_result' = [patterns_learned |-> 0, examples_processed |-> 0,
                           confidence |-> 0]
    /\ batch_start' = 0
    /\ inflight' = 0
    /\ batch_responses' = <<>>
    /\ results' = <<>>
    /\ sample_indices' = <<>>
    /\ validations' = <<>>
    /\ response' = <<>>
    /\ UNCHANGED <<entry, seed_returned, examples_cache, learned_patterns, anomalies,
                   teacher_calls, teacher_outcomes, student_calls, student_outcomes,
                   validation_calls, max_inflight>>
    /\ UNCHANGED <<vb_vars, rl_vars, bt_vars, co_vars, tr_vars>>
    /\ UNCHANGED <<ds_last, api_last, request_history, pattern_cache>>

\* The event loop resumes the other run: the running one has reached an await
\* (or has ended) and the other one is waiting in one.
Switch ==
    /\ run_parked # <<>>
    /\ RunSuspended(pc) \/ RunFinished(pc)
    /\ RunSuspended(run_parked[1].pc)
    /\ run_parked' = <<RunLocals>>
    /\ cache_owner' = OwnersNow
    /\ LET other == run_parked[1]
       IN  /\ run_now' = other.run
           /\ entry' = other.entry
           /\ pc' = other.pc
           /\ quantity' = other.quantity
           /\ seed_i' = other.seed_i
           /\ examples' = other.examples
           /\ learning_result' = other.learning_result
           /\ batch_start' = other.batch_start
           /\ inflight' = other.inflight
           /\ batch_responses' = other.batch_responses
           /\ results' = other.results
           /\ sample_indices' = other.sample_indices
           /\ validations' = other.validations
           /\ response' = other.response
           /\ seed_returned' = other.seed_returned
           /\ stage_log' = other.stage_log
    /\ UNCHANGED <<examples_cache, learned_patterns, anomalies, teacher_calls,
                   teacher_outcomes, student_calls, student_outcomes, validation_calls,
                   max_inflight, run_starts>>
    /\ UNCHANGED <<vb_vars, rl_vars, bt_vars, co_vars, tr_vars>>
    /\ UNCHANGED <<ds_last, api_last, request_history, pattern_cache>>

\* The requests of the two runs: one seed call, and as many as MaxQuantity allows.
RunQuantities == {10, MaxQuantity - 1}

\* The student's calls end naturally and the validator replies with a score.
RunStudentOutcomes == {"stop"}
RunValidationOutcomes == {[raised |-> FALSE, content |-> <<"0", ".", "8", "5">>]}

NextRuns ==
    \/ \E q \in RunQuantities : GenerateDataset(q)
    \/ \E q \in RunQuantities : NextRequest(q)
    \/ Switch
    \/ TeacherIssue
    \/ \E o \in GenerateOutcomes : TeacherSettle(o)
    \/ SeedReturn
    \/ LearnFromTeacher
    \/ BulkIssue
    \/ \E o \in RunStudentOutcomes : StudentSettle(o)
    \/ BulkGather
    \/ BulkReturn
    \/ ValidateBatch
    \/ \E o \in RunValidationOutcomes : ValidationSettle(o)
    \/ ValidateReturn

SpecRuns == Init /\ [][NextRuns]_vars

-----------------------------------------------------------------------------
(* C35: the teacher's cache when a later request starts *)

\* A later request started after an earlier one had completed with at least
\* one successful seed call.
StartedAfterCompletedRun ==
    \E s \in 1..Len(run_starts) :
        /\ run_starts[s].completed # {}
        /\ \E k \in 1..Len(run_starts[s].cache) :
               run_starts[s].cache[k] \in run_starts[s].completed

\* C35: when a later request starts on the same teacher, examples_cache holds
\* no example that was created by an earlier request that has completed.
C35_CacheEmptiedAfterRequest ==
    \A s \in 1..Len(run_starts) :
        \A k \in 1..Len(run_starts[s].cache) :
            run_starts[s].cache[k] \notin run_starts[s].completed

-----------------------------------------------------------------------------
(* C38: interleaved runs and the teacher items of their responses *)

\* The examples of examples_cache that run `run` created, in cache order.
RECURSIVE OwnExamplesFrom(_, _)
OwnExamplesFrom(run, k) ==
    IF k > Len(examples_cache) THEN <<>>
    ELSE (IF OwnerOf(k) = run THEN <<examples_cache[k]>> ELSE <<>>)
         \o OwnExamplesFrom(run, k + 1)

OwnExamples(run) == OwnExamplesFrom(run, 1)

\* The two runs, each with the response it has returned, if any.
RunResponses ==
    {[run |-> run_now, response |-> response]}
        \cup {[run |-> run_parked[k].run, response |-> run_parked[k].response] :
                 k \in 1..Len(run_parked)}

\* The items of `data` whose source is the teacher.
TeacherPart(data) == SelectSeq(data, LAMBDA item : item.source = "teacher")

\* C38: a response returned by either of two interleaved runs holds as teacher
\* items exactly the examples that run's own seed calls produced, in order,
\* and metadata.teacher_examples is their number, although examples_cache
\* holds the examples of both runs.
C38_OwnTeacherItems ==
    \A r \in RunResponses :
        r.response # <<>> =>
            LET own   == OwnExamples(r.run)
                items == TeacherPart(r.response[1].data)
            IN  /\ Len(items) = Len(own)
                /\ \A k \in 1..Len(own) :
                       /\ items[k].content = own[k].output
                       /\ items[k].quality = own[k].confidence
                /\ r.response[1].metadata.teacher_examples = Len(own)

\* Both runs have returned, each has examples in the cache, and an example of
\* the second run precedes one of the first run there: the runs interleaved
\* during seeding.
C38_Witness ==
    /\ \A r \in RunResponses : r.response # <<>>
    /\ Cardinality(RunResponses) = 2
    /\ \E i, j \in 1..Len(examples_cache) :
           i < j /\ OwnerOf(i) = 2 /\ OwnerOf(j) = 1
    /\ Len(examples_cache) > Len(OwnExamples(1))
=============================================================================
